---------------------------- MODULE Spec2Model ----------------------------
(***************************************************************************)
(* A model of the conversational core of ai-reader: the token-budgeted     *)
(* MessagesManager window over its sqlite store (teacher/messages.rs), the *)
(* ToolCallStreamManager and ToolManager (ai_utils.rs), the progress merge *)
(* (teacher/messages/progress.rs), TeacherAgent::input (teacher.rs) and    *)
(* the chat handler with its agent cache (api/user.rs).                    *)
(*                                                                         *)
(* A text is modelled by its length in bytes where only its size matters   *)
(* (the window) and by a sequence of characters where its content matters  *)
(* (the stream reassembler).                                               *)
(***************************************************************************)
EXTENDS Integers, Sequences, FiniteSets, TLC

(***************************************************************************)
(* Bounds of the model.                                                    *)
(***************************************************************************)
\* agent_setting.token_budget, the configured budget of one window
TokenBudget == 80
\* how many conversation messages are appended in one behaviour
MaxMsgs == 3
\* how many tool-call fragments one response stream delivers
MaxChunks == 3
\* how many tool calls one dispatch batch holds
MaxBatch == 2
\* how many chat requests arrive for the one (student, book) pair
MaxRequests == 3
\* how many model requests one input may issue
MaxRounds == 3
\* how many tool calls the model may ask for during one input
MaxCalls == 2
\* how many tools are registered in one behaviour of the registry
MaxAdds == 3
\* how far panics may let the reported total run ahead of the real one
MaxDrift == 15

(***************************************************************************)
(* Program constants.                                                      *)
(***************************************************************************)
\* bytes that format!("## Book Info\n```toml\n{}\n```") adds to the toml text
BookInfoWrapLen == 25
\* bytes that format!("# Study Plan\n{}\n") adds to the stored plan
StudyPlanWrapLen == 14

(***************************************************************************)
(* Input domains: byte lengths of the texts the window is built from.      *)
(***************************************************************************)
InstructionLens == {40, 100}
BookInfoLens == {30, 70, 90}
\* the toml text of a BookInfo whose chapter_infos were emptied
BookInfoBareLen == 30
StudyPlanLens == {26, 86}
ProgressLens == {40, 100}
MsgLens == {38, 78}

VARIABLES
    \* ---- the sqlite store of one (student, book) pair
    history_message,      \* rows of history_message, in update_time order
    db_save_index,        \* how many rows have update_time <= book_progress.update_time
    db_study_plan,        \* length of book_progress.study_plan
    db_progress,          \* length of the text get_progress builds from the rows
    db_instruction,       \* length of the text get_instruction builds
    db_book_info,         \* length of toml::to_string(&book_info)
    \* ---- one MessagesManager
    win,                  \* "none", "constructing" or "live"
    instruction, book_info, study_plan, book_progress,   \* lengths of the blocks
    saved_conversation, unsaved_conversation,
    token_count,
    \* ---- the call in progress on the window
    pc,                   \* "idle", or the await the call is suspended at
    op,                   \* the public method that is running
    cur,                  \* the message add_conversation_message was given
    new_plan,             \* the plan length update_study_plan was given
    result, cause,        \* how the last call ended
    \* ---- history variables
    next_id,              \* messages are numbered in the order they are appended
    pre,                  \* the window as it was when the call started
    requests,             \* model requests issued by the call so far
    evicted,              \* messages this window popped, in the order popped
    trim_before,          \* saved_conversation when the last trim began
    trim_removed,         \* what the last trim popped, in the order popped
    appended_here,        \* ids of the messages this window appended
    \* ---- one ToolCallStreamManager
    tool_call_map,        \* self.0: slot index -> tool call, or vacant
    stream_out,           \* what get_tool_calls returned, once it was called
    drained,              \* get_tool_calls consumed the manager
    \* ---- history variables of the stream
    n_chunks,             \* fragments merged so far
    frag_first,           \* per slot, the first fragment that arrived for it
    frag_args,            \* per slot, all argument texts that arrived, concatenated
    frag_whole,           \* per slot, whether a fragment with id, name and arguments arrived
    frag_since,           \* per slot, the argument texts from that fragment on, concatenated
    \* ---- one ToolManager and one ToolManager::call
    tools,                \* the registry: tool name -> registered tool
    added,                \* history: the tools add_tool was called with, in order
    tm_pc,                \* "idle", "joining" or "returned"
    tm_calls,             \* the batch given to call
    handles,              \* (call.id, JoinHandle) pairs, in spawn order
    task,                 \* per spawned call id: "running", or how the task ended
    join_i,               \* the handle the second loop awaits next
    outputs,              \* the Tool messages collected so far
    invoked,              \* history: ids of the calls whose tool was invoked
    \* ---- one ChapterProgress and the updates merged into it
    chapter_progress,     \* status and objectives of the stored chapter entry
    merge_before,         \* history: the entry before the last merge
    merge_update,         \* history: the update of the last merge
    \* ---- the chat handler and the agent cache, for one (student, book) pair
    cache,                \* the pair's entry: 0 when absent, else an agent
    agents,               \* how many agents were constructed for the pair
    locked,               \* per agent: the request whose task holds its mutex, or 0
    chat_pc,              \* per request: where its handler or its task stands
    teacher,              \* per request: the agent its task was given, or 0
    \* ---- one TeacherAgent::input call and its listener
    in_pc,                \* where input stands
    in_result,            \* "none" while it runs, then "Ok" or "Err"
    in_cause,             \* which step failed
    listener_open,        \* the receiving end of tx is alive
    events,               \* the ResponseEvents the listener received, in order
    conversation,         \* the messages input has appended, in order
    history_written,      \* the messages input has inserted into history_message, in order
    messages,             \* the agent's MessagesManager: the window of the pair
    rounds,               \* per model request: whole_content, whole_refusal, tool_calls
    tool_results,         \* what tool_manager.call returned in this round
    aborted,              \* history: ids of the calls whose task aborted
    \* ---- the teacher_agent table
    teacher_agent,        \* the rows of the table
    agent_op,             \* history: the last statement run on the table
    \* ---- the conversations of several (student, book) pairs
    history_rows,         \* the rows of history_message of all pairs, in insert order
    progress_rows,        \* the rows of book_progress of all pairs
    agent_cache,          \* per pair: its entry of the agent cache, "none" or "live"
    agent_window,         \* per pair: the conversation its agent's window holds
    agent_lock,           \* per pair: a task holds the mutex of its agent
    conv_actor,           \* history: the pair whose handler or turn took the last step
    \* ---- the progress record of one book
    progress,             \* the stored BookProgress
    progress_before,      \* history: the record before the last merge
    progress_update,      \* history: the update of the last merge
    \* ---- the size estimate of one message
    tk_message,           \* the message whose size is asked for
    tk_tokens,            \* what tokens() returned for it, -1 before the call
    \* ---- chapter numbers
    cn_a, cn_b, cn_c,     \* three ChapterNumbers
    cn_pc,                \* "start", then "compared", or "shown" and "parsed"
    cn_ord,               \* what cmp returned for the pairs of the three
    cn_text,              \* to_string of cn_a
    cn_dotted,            \* the text was parsed with its trailing dot
    cn_parsed,            \* what from_str returned for the text
    \* ---- the progress tools of one dispatch batch
    stored_progress,      \* the chapter_progress rows of the pair, by chapter
    stored_notes,         \* the memory notes of the pair
    tool_batch,           \* the two calls of the batch
    tool_pc,              \* per task: "spawned", "read" or "done"
    tool_read             \* per task: the entry its read returned

dbvars == <<history_message, db_save_index, db_study_plan, db_progress,
            db_instruction, db_book_info>>
blocks == <<instruction, book_info, study_plan, book_progress>>
convvars == <<saved_conversation, unsaved_conversation, token_count>>
callvars == <<pc, op, cur, new_plan, result, cause>>
ghostvars == <<next_id, pre, requests, evicted, trim_before, trim_removed,
               appended_here>>
winvars == <<dbvars, win, blocks, convvars, callvars, ghostvars>>
streamvars == <<tool_call_map, stream_out, drained, n_chunks, frag_first, frag_args,
               frag_whole, frag_since>>
toolvars == <<tools, added, tm_pc, tm_calls, handles, task, join_i, outputs, invoked>>
progressvars == <<chapter_progress, merge_before, merge_update>>
chatvars == <<cache, agents, locked, chat_pc, teacher>>
recordvars == <<teacher_agent, agent_op>>
bookvars == <<progress, progress_before, progress_update>>
tokenvars == <<tk_message, tk_tokens>>
numbervars == <<cn_a, cn_b, cn_c, cn_pc, cn_ord, cn_text, cn_dotted, cn_parsed>>
updatevars == <<stored_progress, stored_notes, tool_batch, tool_pc, tool_read>>
pairvars == <<history_rows, progress_rows, agent_cache, agent_window, agent_lock,
               conv_actor>>
inputvars == <<in_pc, in_result, in_cause, listener_open, events, conversation,
               history_written, messages, rounds, tool_results, aborted>>

\* what the actions of one component leave alone
notwin ==
    <<streamvars, toolvars, progressvars, chatvars, inputvars, recordvars, pairvars, bookvars, tokenvars, numbervars, updatevars>>
notstream ==
    <<winvars, toolvars, progressvars, chatvars, inputvars, recordvars, pairvars, bookvars, tokenvars, numbervars, updatevars>>
nottools ==
    <<winvars, streamvars, progressvars, chatvars, inputvars, recordvars, pairvars, bookvars, tokenvars, numbervars, updatevars>>
notprogress ==
    <<winvars, streamvars, toolvars, chatvars, inputvars, recordvars, pairvars, bookvars, tokenvars, numbervars, updatevars>>
notchat ==
    <<winvars, streamvars, toolvars, progressvars, inputvars, recordvars, pairvars, bookvars, tokenvars, numbervars, updatevars>>
notconv ==
    <<winvars, streamvars, toolvars, progressvars, chatvars, inputvars, recordvars, bookvars, tokenvars, numbervars, updatevars>>
notrecord ==
    <<winvars, streamvars, toolvars, progressvars, chatvars, inputvars, pairvars, bookvars, tokenvars, numbervars, updatevars>>
notinput ==
    <<winvars, streamvars, toolvars, progressvars, chatvars, recordvars, pairvars, bookvars, tokenvars, numbervars, updatevars>>
notbook ==
    <<winvars, streamvars, toolvars, progressvars, chatvars, inputvars, recordvars,
      pairvars, tokenvars, numbervars, updatevars>>
nottoken ==
    <<winvars, streamvars, toolvars, progressvars, chatvars, inputvars, recordvars, pairvars, bookvars, numbervars, updatevars>>
notnumber ==
    <<winvars, streamvars, toolvars, progressvars, chatvars, inputvars, recordvars, pairvars, bookvars, tokenvars, updatevars>>
notupdate ==
    <<winvars, streamvars, toolvars, progressvars, chatvars, inputvars, recordvars, pairvars, bookvars, tokenvars, numbervars>>

NoMsg == [id |-> 0, len |-> 0]

(***************************************************************************)
(* Token accounting.                                                       *)
(***************************************************************************)
\* Tokens for String: (self.len() + 2) / 4
tokens(len) == (len + 2) \div 4

\* the size contribution of a text message
message_token_count(m) == tokens(m.len)

token_budget == TokenBudget

quarter == token_budget \div 4

RECURSIVE SumTokens(_)
SumTokens(s) ==
    IF s = <<>> THEN 0 ELSE message_token_count(Head(s)) + SumTokens(Tail(s))

\* MessagesManager::update_token_count
update_token_count(ins, bi, sp, bp, saved, unsaved) ==
    tokens(ins) + tokens(bi) + tokens(sp) + tokens(bp)
        + SumTokens(saved) + SumTokens(unsaved)

Front(s) == SubSeq(s, 1, Len(s) - 1)
Last(s) == s[Len(s)]

\* Which message of the saved conversation one round of the trim loop pops.
PopFront(saved) == [msg |-> Head(saved), rest |-> Tail(saved)]
PopSaved(saved) == [msg |-> Last(saved), rest |-> Front(saved)]

\* The trim loop's condition.
OverBudget(tc) == tc > token_budget

\* The trim loop without its bail!: Ok also when nothing is left to pop.
RECURSIVE clean_without_bail(_, _)
clean_without_bail(saved, tc) ==
    IF ~OverBudget(tc) \/ saved = <<>>
    THEN [saved |-> saved, token_count |-> tc, ok |-> TRUE, removed |-> <<>>]
    ELSE LET p == PopSaved(saved)
             r == clean_without_bail(p.rest, tc - message_token_count(p.msg))
         IN  [r EXCEPT !.removed = <<p.msg>> \o r.removed]

(***************************************************************************)
(* MessagesManager::clean_saved_messages_only: pop the saved conversation  *)
(* while the total is over the budget; an error when nothing is left to    *)
(* pop.  The pops made before the error stay.                              *)
(***************************************************************************)
RECURSIVE clean_saved_messages_only(_, _)
clean_saved_messages_only(saved, tc) ==
    IF ~OverBudget(tc)
    THEN [saved |-> saved, token_count |-> tc, ok |-> TRUE, removed |-> <<>>]
    ELSE IF saved = <<>>
    THEN [saved |-> saved, token_count |-> tc, ok |-> FALSE, removed |-> <<>>]
    ELSE LET p == PopSaved(saved)
             r == clean_saved_messages_only(p.rest,
                                            tc - message_token_count(p.msg))
         IN  [r EXCEPT !.removed = <<p.msg>> \o r.removed]


(***************************************************************************)
(* The window's fields, written together.                                  *)
(***************************************************************************)
WinSet(w, ins, bi, sp, bp, s, u, tc) ==
    /\ win' = w
    /\ instruction' = ins
    /\ book_info' = bi
    /\ study_plan' = sp
    /\ book_progress' = bp
    /\ saved_conversation' = s
    /\ unsaved_conversation' = u
    /\ token_count' = tc

\* no MessagesManager exists
WinClear == WinSet("none", 0, 0, 0, 0, <<>>, <<>>, 0)

Snapshot ==
    [saved |-> saved_conversation, unsaved |-> unsaved_conversation,
     token_count |-> token_count]

\* The call of `caller` returns `res`; a constructor that fails leaves no window.
Finish(caller, res, why, ins, bi, sp, bp, s, u, tc) ==
    /\ pc' = "idle"
    /\ op' = caller
    /\ result' = res
    /\ cause' = why
    /\ IF caller = "new"
       THEN IF res = "Ok"
            THEN WinSet("live", ins, bi, sp, bp, s, u, tc)
            ELSE WinClear
       ELSE WinSet(win, ins, bi, sp, bp, s, u, tc)

(***************************************************************************)
(* What the caller of clean_conversation_messages does once it returned    *)
(* Ok: update_study_plan still checks the new plan against a quarter of    *)
(* the budget, new and add_conversation_message return Ok.                 *)
(***************************************************************************)
AfterClean(caller, ins, bi, sp, bp, s, u, tc) ==
    IF caller = "update_study_plan" /\ tokens(sp) > quarter
    THEN Finish(caller, "Err", "budget", ins, bi, sp, bp, s, u, tc)
    ELSE Finish(caller, "Ok", "none", ins, bi, sp, bp, s, u, tc)

(***************************************************************************)
(* MessagesManager::clean_conversation_messages, up to its first await:    *)
(* trim the saved conversation; when that is not enough, save_progress     *)
(* asks the model for a summary (a model request).                         *)
(***************************************************************************)
CleanConversation(caller, ins, bi, sp, bp, s, u, tc, req, ev) ==
    LET r == clean_saved_messages_only(s, tc)
    IN  /\ trim_before' = s
        /\ trim_removed' = r.removed
        /\ evicted' = ev \o r.removed
        /\ IF r.ok
           THEN /\ requests' = req
                /\ AfterClean(caller, ins, bi, sp, bp, r.saved, u, r.token_count)
           ELSE /\ requests' = req + 1
                /\ pc' = "summarize"
                /\ op' = caller
                /\ result' = "none"
                /\ cause' = "none"
                /\ WinSet(IF caller = "new" THEN "constructing" ELSE win,
                          ins, bi, sp, bp, r.saved, u, r.token_count)

(***************************************************************************)
(* MessagesManager::new.  The book info, the study plan and the book       *)
(* progress are each checked against a quarter of the budget; the          *)
(* instruction is not.                                                     *)
(***************************************************************************)
\* a check that leaves out the study plan
NewBlocksTooLargeButPlan(ins, bi, sp, bp) ==
    \/ tokens(bi) > quarter
    \/ tokens(bp) > quarter

NewBlocksTooLarge(ins, bi, sp, bp) ==
    \/ tokens(bi) > quarter
    \/ tokens(sp) > quarter
    \/ tokens(bp) > quarter

New ==
    /\ win = "none"
    /\ pc = "idle"
    /\ pre' = [saved |-> <<>>, unsaved |-> <<>>, token_count |-> 0]
    /\ cur' = NoMsg
    /\ new_plan' = 0
    /\ appended_here' = {}
    /\ UNCHANGED <<dbvars, next_id>>
    /\ LET raw == db_book_info
           str == IF tokens(raw) > quarter THEN BookInfoBareLen ELSE raw
           bi == str + BookInfoWrapLen
           sp == db_study_plan + StudyPlanWrapLen
           bp == db_progress
           s == SubSeq(history_message, 1, db_save_index)
           u == SubSeq(history_message, db_save_index + 1, Len(history_message))
           tc == update_token_count(db_instruction, bi, sp, bp, s, u)
       IN  IF NewBlocksTooLarge(db_instruction, bi, sp, bp)
           THEN /\ Finish("new", "Err", "budget", 0, 0, 0, 0, <<>>, <<>>, 0)
                /\ requests' = 0
                /\ evicted' = <<>>
                /\ trim_before' = <<>>
                /\ trim_removed' = <<>>
           ELSE CleanConversation("new", db_instruction, bi, sp, bp, s, u, tc,
                                  0, <<>>)
    /\ UNCHANGED notwin

\* one of the reads of the store in new fails
NewDbFail ==
    /\ win = "none"
    /\ pc = "idle"
    /\ Finish("new", "Err", "db_read", 0, 0, 0, 0, <<>>, <<>>, 0)
    /\ requests' = 0
    /\ UNCHANGED <<dbvars, cur, new_plan, next_id, pre, evicted, trim_before,
                   trim_removed, appended_here>>
    /\ UNCHANGED notwin

(***************************************************************************)
(* MessagesManager::add_conversation_message.  The total is raised first,  *)
(* then the row is written, then the message is pushed and the window is   *)
(* trimmed.                                                                *)
(***************************************************************************)
Add(len) ==
    /\ win = "live"
    /\ pc = "idle"
    /\ next_id <= MaxMsgs
    /\ cur' = [id |-> next_id, len |-> len]
    /\ next_id' = next_id + 1
    /\ token_count' = token_count + message_token_count([id |-> next_id, len |-> len])
    /\ pc' = "add_db"
    /\ op' = "add"
    /\ result' = "none"
    /\ cause' = "none"
    /\ pre' = Snapshot
    /\ requests' = 0
    /\ UNCHANGED <<dbvars, win, blocks, saved_conversation, unsaved_conversation,
                   new_plan, evicted, trim_before, trim_removed, appended_here>>
    /\ UNCHANGED notwin

\* the insert into history_message succeeded
AddDbOk ==
    /\ pc = "add_db"
    /\ history_message' = Append(history_message, cur)
    /\ appended_here' = appended_here \cup {cur.id}
    /\ CleanConversation("add", instruction, book_info, study_plan, book_progress,
                         saved_conversation, Append(unsaved_conversation, cur),
                         token_count, requests, evicted)
    /\ UNCHANGED <<db_save_index, db_study_plan, db_progress, db_instruction,
                   db_book_info, cur, new_plan, next_id, pre>>
    /\ UNCHANGED notwin

\* the insert failed, and the message is pushed all the same
AddDbFailPushed ==
    /\ pc = "add_db"
    /\ Finish("add", "Err", "insert", instruction, book_info, study_plan,
              book_progress, saved_conversation,
              Append(unsaved_conversation, cur), token_count)
    /\ UNCHANGED <<dbvars, cur, new_plan, ghostvars>>
    /\ UNCHANGED notwin

\* the insert failed: `?` returns the error, the message is not pushed
AddDbFail ==
    /\ pc = "add_db"
    /\ Finish("add", "Err", "insert", instruction, book_info, study_plan,
              book_progress, saved_conversation, unsaved_conversation, token_count)
    /\ UNCHANGED <<dbvars, cur, new_plan, ghostvars>>
    /\ UNCHANGED notwin


(***************************************************************************)
(* The future of a call is dropped at the await it is suspended at.  A     *)
(* dropped insert may or may not have reached the store.                   *)
(***************************************************************************)
Interrupt(written) ==
    /\ pc # "idle"
    /\ written => pc = "add_db"
    /\ history_message' =
          IF written THEN Append(history_message, cur) ELSE history_message
    /\ Finish(op, "Interrupted", "dropped", instruction, book_info, study_plan,
              book_progress, saved_conversation, unsaved_conversation, token_count)
    /\ UNCHANGED <<db_save_index, db_study_plan, db_progress, db_instruction,
                   db_book_info, cur, new_plan, ghostvars>>
    /\ UNCHANGED notwin

(***************************************************************************)
(* MessagesManager::save_progress and save_to_book_progress.               *)
(***************************************************************************)
\* called directly
SaveProgress ==
    /\ win = "live"
    /\ pc = "idle"
    /\ pc' = "summarize"
    /\ op' = "save_progress"
    /\ result' = "none"
    /\ cause' = "none"
    /\ pre' = Snapshot
    /\ requests' = 1
    /\ UNCHANGED <<dbvars, win, blocks, convvars, cur, new_plan, next_id, evicted,
                   trim_before, trim_removed, appended_here>>
    /\ UNCHANGED notwin

\* llm_fn::summarize_progress returned a BookProgress
SummarizeOk ==
    /\ pc = "summarize"
    /\ pc' = "save_db"
    /\ UNCHANGED <<dbvars, win, blocks, convvars, op, cur, new_plan, result, cause,
                   ghostvars>>
    /\ UNCHANGED notwin

\* the model request failed
SummarizeFail ==
    /\ pc = "summarize"
    /\ Finish(op, "Err", "provider", instruction, book_info, study_plan,
              book_progress, saved_conversation, unsaved_conversation, token_count)
    /\ UNCHANGED <<dbvars, cur, new_plan, ghostvars>>
    /\ UNCHANGED notwin

\* update_book_progress failed: before its first statement, or after the
\* first statement had set book_progress.update_time
SaveDbFail(partial) ==
    /\ pc = "save_db"
    /\ db_save_index' = IF partial THEN Len(history_message) ELSE db_save_index
    /\ Finish(op, "Err", "db_write", instruction, book_info, study_plan,
              book_progress, saved_conversation, unsaved_conversation, token_count)
    /\ UNCHANGED <<history_message, db_study_plan, db_progress, db_instruction,
                   db_book_info, cur, new_plan, ghostvars>>
    /\ UNCHANGED notwin

\* update_book_progress succeeded; newbp is the length of the progress text
\* the rows now give; readok is whether get_progress could read them
SaveDbOk(newbp, readok) ==
    /\ pc = "save_db"
    /\ db_save_index' = Len(history_message)
    /\ db_progress' = newbp
    /\ UNCHANGED <<history_message, db_study_plan, db_instruction, db_book_info,
                   cur, new_plan, next_id, pre, requests, appended_here>>
    /\ LET s == saved_conversation \o unsaved_conversation
           tc == token_count + tokens(newbp) - tokens(book_progress)
           r == clean_saved_messages_only(s, tc)
       IN  IF ~readok
           THEN /\ Finish(op, "Err", "db_read", instruction, book_info, study_plan,
                          book_progress, s, <<>>, token_count)
                /\ UNCHANGED <<evicted, trim_before, trim_removed>>
           ELSE /\ trim_before' = s
                /\ trim_removed' = r.removed
                /\ evicted' = evicted \o r.removed
                /\ IF ~r.ok \/ tokens(newbp) > quarter
                   THEN Finish(op, "Err", "budget", instruction, book_info,
                               study_plan, newbp, r.saved, <<>>, r.token_count)
                   ELSE AfterClean(op, instruction, book_info, study_plan, newbp,
                                   r.saved, <<>>, r.token_count)
    /\ UNCHANGED notwin

(***************************************************************************)
(* MessagesManager::update_study_plan.                                     *)
(***************************************************************************)
UpdateStudyPlan(raw) ==
    /\ win = "live"
    /\ pc = "idle"
    /\ db_study_plan' = raw
    /\ new_plan' = raw
    /\ pre' = Snapshot
    /\ UNCHANGED <<history_message, db_save_index, db_progress, db_instruction,
                   db_book_info, cur, next_id, appended_here>>
    /\ LET sp == raw + StudyPlanWrapLen
           tc == token_count + tokens(sp) - tokens(study_plan)
       IN  CleanConversation("update_study_plan", instruction, book_info, sp,
                             book_progress, saved_conversation,
                             unsaved_conversation, tc, 0, evicted)
    /\ UNCHANGED notwin

\* the update of book_progress.study_plan failed
UpdateStudyPlanDbFail ==
    /\ win = "live"
    /\ pc = "idle"
    /\ pre' = Snapshot
    /\ requests' = 0
    /\ Finish("update_study_plan", "Err", "db_write", instruction, book_info,
              study_plan, book_progress, saved_conversation, unsaved_conversation,
              token_count)
    /\ UNCHANGED <<dbvars, cur, new_plan, next_id, evicted, trim_before,
                   trim_removed, appended_here>>
    /\ UNCHANGED notwin

\* the MessagesManager is dropped (the agent leaves the cache, the process ends)
Drop ==
    /\ win = "live"
    /\ pc = "idle"
    /\ WinClear
    /\ op' = "none"
    /\ result' = "none"
    /\ cause' = "none"
    /\ UNCHANGED <<dbvars, pc, cur, new_plan, ghostvars>>
    /\ UNCHANGED notwin


\* by how much the total exceeds the sum of what the window holds
Drift ==
    token_count - update_token_count(instruction, book_info, study_plan,
                                     book_progress, saved_conversation,
                                     unsaved_conversation)

\* `new - old` on usize with new < old: a build with overflow checks panics
\* after the block was replaced and before the total was adjusted
SaveDbOkPanic(newbp) ==
    /\ pc = "save_db"
    /\ tokens(newbp) < tokens(book_progress)
    /\ Drift + tokens(book_progress) - tokens(newbp) <= MaxDrift
    /\ db_save_index' = Len(history_message)
    /\ db_progress' = newbp
    /\ Finish(op, "Panic", "overflow", instruction, book_info, study_plan, newbp,
              saved_conversation \o unsaved_conversation, <<>>, token_count)
    /\ UNCHANGED <<history_message, db_study_plan, db_instruction, db_book_info,
                   cur, new_plan, ghostvars>>
    /\ UNCHANGED notwin

UpdateStudyPlanPanic(raw) ==
    /\ win = "live"
    /\ pc = "idle"
    /\ tokens(raw + StudyPlanWrapLen) < tokens(study_plan)
    /\ Drift + tokens(study_plan) - tokens(raw + StudyPlanWrapLen) <= MaxDrift
    /\ db_study_plan' = raw
    /\ new_plan' = raw
    /\ pre' = Snapshot
    /\ requests' = 0
    /\ Finish("update_study_plan", "Panic", "overflow", instruction, book_info,
              raw + StudyPlanWrapLen, book_progress, saved_conversation,
              unsaved_conversation, token_count)
    /\ UNCHANGED <<history_message, db_save_index, db_progress, db_instruction,
                   db_book_info, cur, next_id, evicted, trim_before, trim_removed,
                   appended_here>>
    /\ UNCHANGED notwin

(***************************************************************************)
(* ToolCallStreamManager (ai_utils.rs).  A text is a sequence of           *)
(* characters; an Option<String> argument is <<>> for None and <<text>>    *)
(* for Some(text); an absent id or name is "None".                         *)
(***************************************************************************)
Slots == {0, 1}
Ids == {"call_1", "call_2"}
Names == {"GetChapterContent", "BookJump"}
ArgTexts == {<<>>, <<"a">>, <<"b">>}
OptText == {<<>>} \cup {<<x>> : x \in ArgTexts}

\* ChatCompletionMessageToolCallChunk; function.some = FALSE is function: None
NoFunction == [some |-> FALSE, name |-> "None", arguments |-> <<>>]
Chunks ==
    [index : Slots,
     id : Ids \cup {"None"},
     function : {NoFunction}
                \cup [some : {TRUE}, name : Names \cup {"None"}, arguments : OptText]]

NoChunk == [index |-> -1, id |-> "None", function |-> NoFunction]

\* an entry of the map: a ChatCompletionMessageToolCall, or nothing
Vacant == [occupied |-> FALSE, id |-> "None", name |-> "None", arguments |-> <<>>]

\* a pattern that asks for the name and the arguments alone
CompleteButId(chunk) ==
    /\ chunk.function.some
    /\ chunk.function.name # "None"
    /\ chunk.function.arguments # <<>>
\* the let-else pattern of the vacant branch: id, name and arguments all Some
Complete(chunk) ==
    /\ chunk.id # "None"
    /\ chunk.function.some
    /\ chunk.function.name # "None"
    /\ chunk.function.arguments # <<>>

\* push_str the other way round
PushStrFront(buffer, text) == text \o buffer
\* String::push_str
PushStr(buffer, text) == buffer \o text

\* a merge that opens a slot for any fragment with an argument text
merge_chunk_any_text(map, chunk) ==
    IF chunk.function.some /\ chunk.function.arguments # <<>>
    THEN IF map[chunk.index].occupied
         THEN [map EXCEPT ![chunk.index].arguments =
                             PushStr(@, chunk.function.arguments[1])]
         ELSE [map EXCEPT ![chunk.index] =
                             [occupied |-> TRUE, id |-> chunk.id,
                              name |-> chunk.function.name,
                              arguments |-> chunk.function.arguments[1]]]
    ELSE map
\* ToolCallStreamManager::merge_chunk: the map after the fragment was merged
merge_chunk(map, chunk) ==
    IF map[chunk.index].occupied
    THEN IF chunk.function.some /\ chunk.function.arguments # <<>>
         THEN [map EXCEPT ![chunk.index].arguments =
                             PushStr(@, chunk.function.arguments[1])]
         ELSE map
    ELSE IF Complete(chunk)
         THEN [map EXCEPT ![chunk.index] =
                             [occupied |-> TRUE, id |-> chunk.id,
                              name |-> chunk.function.name,
                              arguments |-> chunk.function.arguments[1]]]
         ELSE map

\* the texts of the argument fragments a slot received, in arrival order
ArgsAfter(seen, chunk) ==
    IF chunk.function.some /\ chunk.function.arguments # <<>>
    THEN seen \o chunk.function.arguments[1]
    ELSE seen

\* the fragment brings an id, a name and an argument text
SelfSufficient(chunk) ==
    /\ chunk.id \in Ids
    /\ chunk.function.some
    /\ chunk.function.name \in Names
    /\ chunk.function.arguments \in {<<x>> : x \in ArgTexts}

\* one fragment of the response stream is merged
MergeChunk(chunk) ==
    /\ ~drained
    /\ n_chunks < MaxChunks
    /\ n_chunks' = n_chunks + 1
    /\ tool_call_map' = merge_chunk(tool_call_map, chunk)
    /\ frag_first' = IF frag_first[chunk.index] = NoChunk
                     THEN [frag_first EXCEPT ![chunk.index] = chunk]
                     ELSE frag_first
    /\ frag_args' = [frag_args EXCEPT ![chunk.index] = ArgsAfter(@, chunk)]
    /\ frag_whole' = [frag_whole EXCEPT ![chunk.index] = @ \/ SelfSufficient(chunk)]
    /\ frag_since' = [frag_since EXCEPT ![chunk.index] =
                         IF frag_whole[chunk.index] \/ SelfSufficient(chunk)
                         THEN ArgsAfter(@, chunk)
                         ELSE @]
    /\ UNCHANGED <<stream_out, drained>>
    /\ UNCHANGED notstream

\* the orders a Vec collected from a HashMap's values can have
Orders(S) == {s \in [1..Cardinality(S) -> S] : \A x \in S : \E i \in DOMAIN s : s[i] = x}

\* ToolCallStreamManager::get_tool_calls: the values of the map, in any order
GetToolCalls ==
    /\ ~drained
    /\ drained' = TRUE
    /\ stream_out' \in
          {[k \in DOMAIN o |-> tool_call_map[o[k]]] :
              o \in Orders({i \in Slots : tool_call_map[i].occupied})}
    /\ UNCHANGED <<tool_call_map, n_chunks, frag_first, frag_args, frag_whole, frag_since>>
    /\ UNCHANGED notstream

StreamInit ==
    /\ tool_call_map = [i \in Slots |-> Vacant]
    /\ stream_out = <<>>
    /\ drained = FALSE
    /\ n_chunks = 0
    /\ frag_first = [i \in Slots |-> NoChunk]
    /\ frag_args = [i \in Slots |-> <<>>]
    /\ frag_whole = [i \in Slots |-> FALSE]
    /\ frag_since = [i \in Slots |-> <<>>]

(***************************************************************************)
(* ToolManager (ai_utils.rs): the registry and the dispatch of one batch.  *)
(* Every call to a registered tool is spawned as a task; the tasks run in  *)
(* any interleaving and are joined in spawn order.                         *)
(***************************************************************************)
CallIds == {"call_1", "call_2", "call_3"}
\* the names a model may ask for: registered ones and one that is not
CallNames == {"GetChapterContent", "NoSuchTool"}
\* argument payloads: a chapter of the book, a chapter it lacks, malformed JSON
CallArgs == {"1.", "9.", "{"}

ToolCalls == [id : CallIds, name : CallNames, arguments : CallArgs]

\* the batches of at most MaxBatch calls with pairwise distinct ids
Batches ==
    UNION {{b \in [1..n -> ToolCalls] :
               \A i, j \in 1..n : i # j => b[i].id # b[j].id} : n \in 1..MaxBatch}

\* the tools TeacherAgent::new registers
RegisteredTools == {"GetChapterContent", "BookJump"}

\* ToolDyn::call of a registered tool: serde_json::from_str of the payload,
\* then the tool's logic, then serde_json::to_string of its output
ToolFuture(call) ==
    IF call.arguments = "{"
    THEN [ok |-> FALSE, text |-> "Failed to parse arguments", ran |-> FALSE]
    ELSE IF call.arguments = "1."
    THEN [ok |-> TRUE, text |-> "chapter 1", ran |-> TRUE]
    ELSE [ok |-> FALSE, text |-> "Chapter not found", ran |-> TRUE]

\* the message of the else branch, without the call's id
NotFoundUnpaired(call) == [tool_call_id |-> "", content |-> "Tool not found"]
\* the message the first loop pushes for a name the registry lacks
NotFoundMessage(call) == [tool_call_id |-> call.id, content |-> "Tool not found"]

\* the first loop over a batch: what it spawns and what it pushes
RECURSIVE SpawnLoop(_, _)
SpawnLoop(calls, registry) ==
    IF calls = <<>>
    THEN [handles |-> <<>>, outputs |-> <<>>]
    ELSE LET call == Head(calls)
             r == SpawnLoop(Tail(calls), registry)
         IN  IF call.name \in DOMAIN registry
             THEN [r EXCEPT !.handles = <<call>> \o r.handles]
             ELSE [r EXCEPT !.outputs = <<NotFoundMessage(call)>> \o r.outputs]

\* a dispatch that starts the task of a call only when it comes to await it
CallStartOneByOne(batch) ==
    /\ tm_pc = "idle"
    /\ tm_calls' = batch
    /\ LET r == SpawnLoop(batch, tools)
       IN  /\ handles' = r.handles
           /\ outputs' = r.outputs
           /\ task' = [id \in CallIds |->
                         IF r.handles # <<>> /\ r.handles[1].id = id
                         THEN "running" ELSE "none"]
           /\ tm_pc' = IF r.handles = <<>> THEN "returned" ELSE "joining"
    /\ join_i' = 1
    /\ UNCHANGED <<tools, added, invoked>>
    /\ UNCHANGED nottools

\* ToolManager::call up to the first await of a handle
CallStart(batch) ==
    /\ tm_pc = "idle"
    /\ tm_calls' = batch
    /\ LET r == SpawnLoop(batch, tools)
       IN  /\ handles' = r.handles
           /\ outputs' = r.outputs
           /\ task' = [id \in CallIds |->
                         IF \E k \in DOMAIN r.handles : r.handles[k].id = id
                         THEN "running" ELSE "none"]
           /\ tm_pc' = IF r.handles = <<>> THEN "returned" ELSE "joining"
    /\ join_i' = 1
    /\ UNCHANGED <<tools, added, invoked>>
    /\ UNCHANGED nottools

\* a spawned task runs its tool to the end
TaskRun(k) ==
    /\ tm_pc = "joining"
    /\ k \in DOMAIN handles
    /\ task[handles[k].id] = "running"
    /\ task' = [task EXCEPT ![handles[k].id] =
                  IF ToolFuture(handles[k]).ok THEN "ok" ELSE "err"]
    /\ invoked' = IF ToolFuture(handles[k]).ran
                  THEN invoked \cup {handles[k].id} ELSE invoked
    /\ UNCHANGED <<tools, added, tm_pc, tm_calls, handles, join_i, outputs>>
    /\ UNCHANGED nottools

\* a spawned task panics or is cancelled: its handle yields a JoinError
TaskAbort(k) ==
    /\ tm_pc = "joining"
    /\ k \in DOMAIN handles
    /\ task[handles[k].id] = "running"
    /\ task' = [task EXCEPT ![handles[k].id] = "aborted"]
    /\ UNCHANGED <<tools, added, tm_pc, tm_calls, handles, join_i, outputs, invoked>>
    /\ UNCHANGED nottools

\* a second loop that skips a tool's error like a join error
JoinOutputOkOnly(call, join_error) ==
    IF join_error \/ ~ToolFuture(call).ok
    THEN <<>>
    ELSE <<[tool_call_id |-> call.id, content |-> ToolFuture(call).text]>>
\* the body of the second loop: what awaiting one handle adds to outputs
JoinOutput(call, join_error) ==
    IF join_error
    THEN <<>>
    ELSE <<[tool_call_id |-> call.id, content |-> ToolFuture(call).text]>>

\* the second loop over the handles, given the calls whose task aborted
RECURSIVE JoinLoop(_, _)
JoinLoop(hs, join_errors) ==
    IF hs = <<>>
    THEN <<>>
    ELSE JoinOutput(Head(hs), Head(hs).id \in join_errors)
         \o JoinLoop(Tail(hs), join_errors)

\* what ToolManager::call returns for a batch, given the calls whose task aborted
ToolManagerCall(calls, registry, join_errors) ==
    SpawnLoop(calls, registry).outputs
    \o JoinLoop(SpawnLoop(calls, registry).handles, join_errors)

\* a second loop that answers a join error with a Tool message
JoinReportsAbort ==
    /\ tm_pc = "joining"
    /\ task[handles[join_i].id] # "running"
    /\ outputs' = outputs \o
          IF task[handles[join_i].id] = "aborted"
          THEN <<[tool_call_id |-> handles[join_i].id, content |-> "join error"]>>
          ELSE JoinOutput(handles[join_i], FALSE)
    /\ join_i' = join_i + 1
    /\ tm_pc' = IF join_i = Len(handles) THEN "returned" ELSE "joining"
    /\ UNCHANGED <<tools, added, tm_calls, handles, task, invoked>>
    /\ UNCHANGED nottools

\* the second loop: handle.await of the next handle, once its task has ended
Join ==
    /\ tm_pc = "joining"
    /\ task[handles[join_i].id] # "running"
    /\ outputs' = outputs \o JoinOutput(handles[join_i],
                                        task[handles[join_i].id] = "aborted")
    /\ join_i' = join_i + 1
    /\ tm_pc' = IF join_i = Len(handles) THEN "returned" ELSE "joining"
    /\ UNCHANGED <<tools, added, tm_calls, handles, task, invoked>>
    /\ UNCHANGED nottools

\* the tools a registration may be given: for every name two tools that
\* differ in their declaration
ToolNames == RegisteredTools \cup {"ProgressUpdate"}
Tools == [name : ToolNames, definition : {"first", "second"}]

\* a registry that keeps the first tool of a name
add_tool_if_absent(registry, tool) ==
    [n \in DOMAIN registry \cup {tool.name} |->
        IF n \in DOMAIN registry THEN registry[n] ELSE tool]
\* ToolManager::add_tool: BTreeMap::insert under the tool's name
add_tool(registry, tool) ==
    [n \in DOMAIN registry \cup {tool.name} |->
        IF n = tool.name THEN tool ELSE registry[n]]

\* ToolManager::add_tools: add_tool for each tool, in order
RECURSIVE add_tools(_, _)
add_tools(registry, list) ==
    IF list = <<>>
    THEN registry
    ELSE add_tools(add_tool(registry, Head(list)), Tail(list))

\* ToolManager::get_tools: the declaration of every value of the map, in
\* the order of the keys
get_tools(registry) ==
    LET keys == CHOOSE o \in Orders(DOMAIN registry) : TRUE
    IN  [k \in DOMAIN keys |->
            [name |-> registry[keys[k]].name,
             definition |-> registry[keys[k]].definition]]

\* the tools TeacherAgent::new registers, in its order
AgentTools ==
    <<[name |-> "GetChapterContent", definition |-> "first"],
      [name |-> "BookJump", definition |-> "first"]>>

\* add_tool(tool)
AddTool(tool) ==
    /\ tm_pc = "idle"
    /\ Len(added) < MaxAdds
    /\ tools' = add_tool(tools, tool)
    /\ added' = Append(added, tool)
    /\ UNCHANGED <<tm_pc, tm_calls, handles, task, join_i, outputs, invoked>>
    /\ UNCHANGED nottools

\* add_tools(list)
AddTools(list) ==
    /\ tm_pc = "idle"
    /\ Len(added) + Len(list) <= MaxAdds
    /\ tools' = add_tools(tools, list)
    /\ added' = added \o list
    /\ UNCHANGED <<tm_pc, tm_calls, handles, task, join_i, outputs, invoked>>
    /\ UNCHANGED nottools

\* no dispatch is under way
DispatchInit ==
    /\ tm_pc = "idle"
    /\ tm_calls = <<>>
    /\ handles = <<>>
    /\ task = [id \in CallIds |-> "none"]
    /\ join_i = 1
    /\ outputs = <<>>
    /\ invoked = {}

\* ToolManager::default(): an empty registry
RegistryInit ==
    /\ tools = <<>>
    /\ added = <<>>
    /\ DispatchInit

ToolsInit ==
    /\ tools = add_tools(<<>>, AgentTools)
    /\ added = AgentTools
    /\ DispatchInit

(***************************************************************************)
(* ChapterProgress (teacher/messages/progress.rs).  An objective set is a  *)
(* BTreeSet ordered and compared by description alone.  Time stamps are    *)
(* left out: merge copies them and reads none.                             *)
(***************************************************************************)
Descriptions == {"d1", "d2"}
ChapterStatuses == {"NotStarted", "InProgress", "Completed"}
\* Option<String>: None, or Some text
OptNotes == {"None", "Some"}

ChapterObjectives ==
    [description : Descriptions, completed : BOOLEAN,
     progress : OptNotes, next_step : OptNotes]

\* Eq and Ord of ChapterObjective
SameObjective(a, b) == a.description = b.description

\* the sets a BTreeSet<ChapterObjective> can hold
ObjectiveSets ==
    {S \in SUBSET ChapterObjectives :
        \A a, b \in S : SameObjective(a, b) => a = b}

ChapterProgressValues == [status : ChapterStatuses, objectives : ObjectiveSets]

\* BTreeSet::insert: a set that holds an equal element is left as it is
BTreeSetInsert(set, value) ==
    IF \E x \in set : SameObjective(x, value) THEN set ELSE set \cup {value}

\* the body of merge's loop for one objective of the update
MergeObjective(set, objective) ==
    BTreeSetInsert(set,
        IF objective.completed
        THEN [objective EXCEPT !.progress = "None", !.next_step = "None"]
        ELSE objective)

\* merge's loop over the update's objectives
RECURSIVE MergeObjectives(_, _)
MergeObjectives(set, others) ==
    IF others = {}
    THEN set
    ELSE LET objective == CHOOSE o \in others : TRUE
         IN  MergeObjectives(MergeObjective(set, objective), others \ {objective})

\* ChapterProgress::merge
ChapterProgressMerge(self, other) ==
    [status |-> other.status,
     objectives |-> MergeObjectives(self.objectives, other.objectives)]

\* ChapterProgress::default
ChapterProgressDefault == [status |-> "NotStarted", objectives |-> {}]

\* one call of merge on the stored entry
MergeChapter(other) ==
    /\ chapter_progress' = ChapterProgressMerge(chapter_progress, other)
    /\ merge_before' = chapter_progress
    /\ merge_update' = other
    /\ UNCHANGED notprogress

ProgressInit ==
    /\ chapter_progress = ChapterProgressDefault
    /\ merge_before = ChapterProgressDefault
    /\ merge_update = ChapterProgressDefault

(***************************************************************************)
(* BookProgress (teacher/messages/progress.rs): chapter_progress is a      *)
(* BTreeMap from chapter number to ChapterProgress, notes a BTreeSet of    *)
(* strings.  Time stamps are left out as above.                            *)
(***************************************************************************)
BookChapters == {"1.", "2."}
BookNotes == {"n1", "n2"}

\* the objectives of the entries of this component: open ones, told apart
\* by their description
BookObjectives ==
    {o \in ChapterObjectives :
        ~o.completed /\ o.progress = "Some" /\ o.next_step = "Some"}
BookObjectiveSets == SUBSET BookObjectives
BookEntries == [status : {"InProgress"}, objectives : BookObjectiveSets]

\* BTreeMap<ChapterNumber, ChapterProgress> over the entries e
ChapterMaps(e) == UNION {[cs -> e] : cs \in SUBSET BookChapters}

\* the updates merged: an entry names at most one objective, and an update
\* brings at most one note
BookUpdates ==
    [current_learning_chapter : BookChapters,
     chapter_progress :
         ChapterMaps({e \in BookEntries : Cardinality(e.objectives) <= 1}),
     notes : {n \in SUBSET BookNotes : Cardinality(n) <= 1}]

\* merge's loop body for one chapter, with the update's entry put in the
\* place of the stored one
BookProgressReplaceChapter(map, chapter, entry) ==
    [c \in DOMAIN map \cup {chapter} |->
        IF c = chapter THEN entry ELSE map[c]]

\* merge's loop body for one chapter: entry(chapter).or_insert_with(default)
\* .merge(progress)
BookProgressMergeChapter(map, chapter, entry) ==
    [c \in DOMAIN map \cup {chapter} |->
        IF c = chapter
        THEN ChapterProgressMerge(
                 IF chapter \in DOMAIN map THEN map[chapter]
                 ELSE ChapterProgressDefault, entry)
        ELSE map[c]]

\* merge's loop over the update's chapters
RECURSIVE BookProgressMergeChapters(_, _, _)
BookProgressMergeChapters(map, other, left) ==
    IF left = {}
    THEN map
    ELSE LET chapter == CHOOSE c \in left : TRUE
         IN  BookProgressMergeChapters(
                 BookProgressMergeChapter(map, chapter, other[chapter]),
                 other, left \ {chapter})

\* BookProgress::merge
BookProgressMerge(self, other) ==
    [current_learning_chapter |-> other.current_learning_chapter,
     chapter_progress |->
         BookProgressMergeChapters(self.chapter_progress, other.chapter_progress,
                                   DOMAIN other.chapter_progress),
     notes |-> self.notes \cup other.notes]

\* a BookProgress with no chapter entry and no note
BookProgressEmpty ==
    [current_learning_chapter |-> "1.", chapter_progress |-> <<>>, notes |-> {}]

\* one call of merge on the stored record
MergeBook(other) ==
    /\ progress' = BookProgressMerge(progress, other)
    /\ progress_before' = progress
    /\ progress_update' = other
    /\ UNCHANGED notbook

BookInit ==
    /\ progress = BookProgressEmpty
    /\ progress_before = BookProgressEmpty
    /\ progress_update = BookProgressEmpty

(***************************************************************************)
(* impl Tokens for ChatCompletionRequestMessage (ai_utils.rs).  A text is  *)
(* its length in bytes, which is all that tokens() reads of it.            *)
(***************************************************************************)
TextLens == {0, 2, 5, 38}

\* the parts of a content array
TextPart == [kind : {"Text"}, len : TextLens]
RefusalPart == [kind : {"Refusal"}, len : TextLens]
AudioPart == [kind : {"InputAudio"}, len : TextLens]
ImagePart == [kind : {"ImageUrl"}, len : {0}]

\* a content: one text, or an array of at most two of the role's parts
Contents(parts) ==
    [kind : {"Text"}, len : TextLens, parts : {<<>>}]
        \cup [kind : {"Array"}, len : {0},
              parts : {<<>>} \cup {<<p>> : p \in parts}
                             \cup {<<p, q>> : p \in parts, q \in {[kind |-> "Text", len |-> 5]}}]
NoContent == [kind |-> "None", len |-> 0, parts |-> <<>>]

\* ChatCompletionMessageToolCall: the length of its arguments text
ToolCallLens == {<<>>, <<2>>, <<38>>}

\* the messages of the four roles the window holds
TokenMessages ==
    [role : {"system", "tool"}, content : Contents(TextPart),
     refusal : {-1}, tool_calls : {<<>>}]
        \cup [role : {"user"},
              content : Contents(TextPart \cup ImagePart \cup AudioPart),
              refusal : {-1}, tool_calls : {<<>>}]
        \cup [role : {"assistant"},
              content : {NoContent} \cup Contents(TextPart \cup RefusalPart),
              refusal : {-1} \cup TextLens, tool_calls : ToolCallLens]

\* what one part of a content array adds: 170*4 for an image, the text's
\* tokens otherwise
PartTokens(p) == IF p.kind = "ImageUrl" THEN 170 * 4 ELSE tokens(p.len)

\* the sum over a content array
RECURSIVE PartsTokens(_)
PartsTokens(parts) ==
    IF parts = <<>> THEN 0 ELSE PartTokens(Head(parts)) + PartsTokens(Tail(parts))

\* Tokens::tokens of a message: its content alone is read, whatever the role
MessageTokens(m) ==
    IF m.content.kind = "None" THEN 0
    ELSE IF m.content.kind = "Text" THEN tokens(m.content.len)
    ELSE PartsTokens(m.content.parts)

\* one call of tokens()
CountTokens ==
    /\ tk_tokens = -1
    /\ tk_tokens' = MessageTokens(tk_message)
    /\ UNCHANGED tk_message
    /\ UNCHANGED nottoken

\* any message, not yet counted
TokensInit ==
    /\ tk_message \in TokenMessages
    /\ tk_tokens = -1

\* one message for the specifications of the other parts
TokensIdle ==
    /\ TokensInit
    /\ tk_message = [role |-> "user", content |-> [kind |-> "Text", len |-> 38, parts |-> <<>>],
                     refusal |-> -1, tool_calls |-> <<>>]

(***************************************************************************)
(* ChapterNumber (book/chapter.rs): a Vec<i64>, its order, its text.  A    *)
(* text is a sequence of characters.                                       *)
(***************************************************************************)
Components == {-2, -1, 0, 12}
ChapterNumberValues ==
    {<<>>} \cup {<<x>> : x \in Components}
           \cup {<<x, y>> : x \in Components, y \in Components}

\* Ord for i64
IntCmp(x, y) == IF x < y THEN "Less" ELSE IF x > y THEN "Greater" ELSE "Equal"

\* Ord for Vec<i64>: lexicographic, a proper prefix is less
RECURSIVE VecCmp(_, _)
VecCmp(a, b) ==
    IF a = <<>> /\ b = <<>> THEN "Equal"
    ELSE IF a = <<>> THEN "Less"
    ELSE IF b = <<>> THEN "Greater"
    ELSE IF IntCmp(Head(a), Head(b)) # "Equal" THEN IntCmp(Head(a), Head(b))
    ELSE VecCmp(Tail(a), Tail(b))

\* an order that knows no suffix chapters
cmp_plain(a, b) == VecCmp(a, b)
\* Ord::cmp for ChapterNumber
cmp(a, b) ==
    IF a # <<>> /\ b # <<>>
    THEN IF (a[1] = -1) = (b[1] = -1)
         THEN VecCmp(a, b)
         ELSE IF a[1] # -1 /\ b[1] = -1 THEN "Less" ELSE "Greater"
    ELSE VecCmp(a, b)

DigitChars == <<"0", "1", "2", "3", "4", "5", "6", "7", "8", "9">>

\* Display for a non-negative i64
RECURSIVE DigitsOf(_)
DigitsOf(n) ==
    IF n < 10 THEN <<DigitChars[n + 1]>>
    ELSE DigitsOf(n \div 10) \o <<DigitChars[(n % 10) + 1]>>

\* Display for i64
ItemText(n) == IF n < 0 THEN <<"-">> \o DigitsOf(-n) ELSE DigitsOf(n)

\* Display for ChapterNumber: write!(f, "{item}.") for every item
RECURSIVE to_string(_)
to_string(number) ==
    IF number = <<>> THEN <<>>
    ELSE ItemText(Head(number)) \o <<".">> \o to_string(Tail(number))

\* str::split('.'): the pieces between the dots, an empty last one included
RECURSIVE Split(_, _)
Split(text, piece) ==
    IF text = <<>> THEN <<piece>>
    ELSE IF Head(text) = "." THEN <<piece>> \o Split(Tail(text), <<>>)
    ELSE Split(Tail(text), Append(piece, Head(text)))

\* splitting that keeps the empty piece after a trailing dot
split_keeping_last(text) == Split(text, <<>>)
\* str::split_terminator('.'): an empty last piece is dropped
split_terminator(text) ==
    LET pieces == Split(text, <<>>)
    IN  IF pieces[Len(pieces)] = <<>>
        THEN SubSeq(pieces, 1, Len(pieces) - 1)
        ELSE pieces

DigitValue(c) == CHOOSE d \in 0..9 : DigitChars[d + 1] = c
IsDigit(c) == \E d \in 0..9 : DigitChars[d + 1] = c

\* the value of a run of digits
RECURSIVE DigitsValue(_, _)
DigitsValue(digits, acc) ==
    IF digits = <<>> THEN acc
    ELSE DigitsValue(Tail(digits), 10 * acc + DigitValue(Head(digits)))

\* i64::from_str: an optional sign, then at least one digit
ParseInt(piece) ==
    LET signed == piece # <<>> /\ Head(piece) \in {"-", "+"}
        digits == IF signed THEN Tail(piece) ELSE piece
    IN  IF digits = <<>> \/ \E i \in DOMAIN digits : ~IsDigit(digits[i])
        THEN [ok |-> FALSE, value |-> 0]
        ELSE [ok |-> TRUE,
              value |-> IF signed /\ Head(piece) = "-"
                        THEN 0 - DigitsValue(digits, 0)
                        ELSE DigitsValue(digits, 0)]

\* FromStr for ChapterNumber: every piece parsed, the first error returned
from_str(text) ==
    LET pieces == split_terminator(text)
    IN  IF \E i \in DOMAIN pieces : ~ParseInt(pieces[i]).ok
        THEN [ok |-> FALSE, number |-> <<>>]
        ELSE [ok |-> TRUE, number |-> [i \in DOMAIN pieces |-> ParseInt(pieces[i]).value]]

\* the text without its last character
WithoutLast(text) == SubSeq(text, 1, Len(text) - 1)

NoOrd == [ab |-> "none", ba |-> "none", bc |-> "none", ac |-> "none", aa |-> "none"]

\* cmp on the pairs of the three numbers
Compare ==
    /\ cn_pc = "start"
    /\ cn_pc' = "compared"
    /\ cn_ord' = [ab |-> cmp(cn_a, cn_b), ba |-> cmp(cn_b, cn_a),
                  bc |-> cmp(cn_b, cn_c), ac |-> cmp(cn_a, cn_c),
                  aa |-> cmp(cn_a, cn_a)]
    /\ UNCHANGED <<cn_a, cn_b, cn_c, cn_text, cn_dotted, cn_parsed>>
    /\ UNCHANGED notnumber

\* to_string (and Serialize) of the first number
ShowNumber ==
    /\ cn_pc = "start"
    /\ cn_pc' = "shown"
    /\ cn_text' = to_string(cn_a)
    /\ UNCHANGED <<cn_a, cn_b, cn_c, cn_ord, cn_dotted, cn_parsed>>
    /\ UNCHANGED notnumber

\* parse (and Deserialize) of the text, with or without its trailing dot
FromStr(dotted) ==
    /\ cn_pc = "shown"
    /\ dotted \/ cn_text # <<>>
    /\ cn_pc' = "parsed"
    /\ cn_dotted' = dotted
    /\ cn_parsed' = from_str(IF dotted THEN cn_text ELSE WithoutLast(cn_text))
    /\ UNCHANGED <<cn_a, cn_b, cn_c, cn_ord, cn_text>>
    /\ UNCHANGED notnumber

\* any three numbers, nothing computed yet
NumbersInit ==
    /\ cn_a \in ChapterNumberValues
    /\ cn_b \in ChapterNumberValues
    /\ cn_c \in ChapterNumberValues
    /\ cn_pc = "start"
    /\ cn_ord = NoOrd
    /\ cn_text = <<>>
    /\ cn_dotted = TRUE
    /\ cn_parsed = [ok |-> FALSE, number |-> <<>>]

\* three fixed numbers for the specifications of the other parts
NumbersIdle ==
    /\ NumbersInit
    /\ cn_a = <<>>
    /\ cn_b = <<>>
    /\ cn_c = <<>>

(***************************************************************************)
(* ProgressUpdateTool and AddMemoryTool (teacher/messages/tools.rs) in one *)
(* dispatch batch.  ToolManager::call spawns one task per call, and the    *)
(* tasks run side by side on the runtime's threads.  Each tool calls one   *)
(* function of MessagesDatabase; update_chapter_progress and add_memory are *)
(* not part of the sources and are taken from the store's description: the *)
(* chapter progress is upserted by read, merge and write, a note is        *)
(* inserted, every single statement is atomic and no transaction spans two *)
(* of them.                                                                *)
(***************************************************************************)
Tasks == {1, 2}

\* the arguments of ProgressUpdate: a chapter and an entry with one objective
ProgressArgs ==
    [chapter : BookChapters,
     progress : {e \in BookEntries : Cardinality(e.objectives) = 1}]

ProgressUpdateCalls == [tool : {"ProgressUpdate"}, args : ProgressArgs]
AddMemoryCalls == [tool : {"AddMemory"}, args : BookNotes]

\* a batch of two calls to the same tool
ToolBatches == [Tasks -> ProgressUpdateCalls] \cup [Tasks -> AddMemoryCalls]

\* the stored entry of a chapter, the default one when no row is there
StoredEntry(rows, chapter) ==
    IF chapter \in DOMAIN rows THEN rows[chapter] ELSE ChapterProgressDefault

\* the write of update_chapter_progress: the entry read, merged with the update
UpsertRow(rows, chapter, read, update) ==
    [c \in DOMAIN rows \cup {chapter} |->
        IF c = chapter THEN ChapterProgressMerge(read, update) ELSE rows[c]]

\* update_chapter_progress, first statement: the chapter's row is read
ReadProgress(t) ==
    /\ tool_batch[t].tool = "ProgressUpdate"
    /\ tool_pc[t] = "spawned"
    /\ tool_read' = [tool_read EXCEPT ![t] = StoredEntry(stored_progress, tool_batch[t].args.chapter)]
    /\ tool_pc' = [tool_pc EXCEPT ![t] = "read"]
    /\ UNCHANGED <<stored_progress, stored_notes, tool_batch>>
    /\ UNCHANGED notupdate

\* update_chapter_progress, second statement: the merged entry is written
WriteProgress(t) ==
    /\ tool_batch[t].tool = "ProgressUpdate"
    /\ tool_pc[t] = "read"
    /\ stored_progress' = UpsertRow(stored_progress, tool_batch[t].args.chapter,
                                    tool_read[t], tool_batch[t].args.progress)
    /\ tool_pc' = [tool_pc EXCEPT ![t] = "done"]
    /\ UNCHANGED <<stored_notes, tool_batch, tool_read>>
    /\ UNCHANGED notupdate

\* add_memory: the note is inserted
AddMemory(t) ==
    /\ tool_batch[t].tool = "AddMemory"
    /\ tool_pc[t] = "spawned"
    /\ stored_notes' = stored_notes \cup {tool_batch[t].args}
    /\ tool_pc' = [tool_pc EXCEPT ![t] = "done"]
    /\ UNCHANGED <<stored_progress, tool_batch, tool_read>>
    /\ UNCHANGED notupdate

\* ToolManager::call has spawned the tasks of a batch; nothing is stored yet
UpdatesInit ==
    /\ stored_progress = <<>>
    /\ stored_notes = {}
    /\ tool_batch \in ToolBatches
    /\ tool_pc = [t \in Tasks |-> "spawned"]
    /\ tool_read = [t \in Tasks |-> ChapterProgressDefault]

\* one fixed batch for the specifications of the other parts
UpdatesIdle ==
    /\ UpdatesInit
    /\ tool_batch = [t \in Tasks |-> [tool |-> "AddMemory", args |-> "n1"]]

(***************************************************************************)
(* The chat handler (api/user.rs) and the cache of agents (web_server.rs), *)
(* seen from one (student, book) pair.  The cache holds up to 1000 entries *)
(* of all pairs; an insert for another pair can push this pair's entry     *)
(* out.  A request's task keeps its Arc of the agent whatever the cache    *)
(* does.                                                                   *)
(***************************************************************************)
Requests == 1..MaxRequests
Agents == 1..MaxRequests

\* a request whose try_get_with is running TeacherAgent::new
Initialising == {r \in Requests : chat_pc[r] = "init"}

\* chat finds the pair's entry: try_get_with returns it and the task is spawned
ChatHit(r) ==
    /\ chat_pc[r] = "none"
    /\ cache # 0
    /\ teacher' = [teacher EXCEPT ![r] = cache]
    /\ chat_pc' = [chat_pc EXCEPT ![r] = "spawned"]
    /\ UNCHANGED <<cache, agents, locked>>
    /\ UNCHANGED notchat

\* chat finds no entry and no initialisation in flight: it runs the init future
ChatMiss(r) ==
    /\ chat_pc[r] = "none"
    /\ cache = 0
    /\ Initialising = {}
    /\ chat_pc' = [chat_pc EXCEPT ![r] = "init"]
    /\ UNCHANGED <<cache, agents, locked, teacher>>
    /\ UNCHANGED notchat

\* chat finds no entry but an initialisation in flight: try_get_with waits for it
ChatWait(r) ==
    /\ chat_pc[r] = "none"
    /\ cache = 0
    /\ Initialising # {}
    /\ chat_pc' = [chat_pc EXCEPT ![r] = "wait"]
    /\ UNCHANGED <<cache, agents, locked, teacher>>
    /\ UNCHANGED notchat

\* TeacherAgent::new returned Ok: the agent is cached and handed to the request
\* that built it and to those that waited; each spawns its task
InitOk(r) ==
    /\ chat_pc[r] = "init"
    /\ agents' = agents + 1
    /\ cache' = agents + 1
    /\ teacher' = [q \in Requests |->
                     IF chat_pc[q] \in {"init", "wait"} THEN agents + 1 ELSE teacher[q]]
    /\ chat_pc' = [q \in Requests |->
                     IF chat_pc[q] \in {"init", "wait"} THEN "spawned" ELSE chat_pc[q]]
    /\ UNCHANGED locked
    /\ UNCHANGED notchat

\* TeacherAgent::new returned Err: nothing is cached, the requests answer 400
InitErr(r) ==
    /\ chat_pc[r] = "init"
    /\ chat_pc' = [q \in Requests |->
                     IF chat_pc[q] \in {"init", "wait"} THEN "bad_request" ELSE chat_pc[q]]
    /\ UNCHANGED <<cache, agents, locked, teacher>>
    /\ UNCHANGED notchat

\* the cache drops the pair's entry to make room for another pair's
Evict ==
    /\ cache # 0
    /\ cache' = 0
    /\ UNCHANGED <<agents, locked, chat_pc, teacher>>
    /\ UNCHANGED notchat

\* the spawned task gets the agent's mutex and starts teacher.input
Lock(r) ==
    /\ chat_pc[r] = "spawned"
    /\ locked[teacher[r]] = 0
    /\ locked' = [locked EXCEPT ![teacher[r]] = r]
    /\ chat_pc' = [chat_pc EXCEPT ![r] = "input"]
    /\ UNCHANGED <<cache, agents, teacher>>
    /\ UNCHANGED notchat

\* teacher.input returns, Ok or Err; the guard is dropped with the task
InputEnd(r) ==
    /\ chat_pc[r] = "input"
    /\ locked' = [locked EXCEPT ![teacher[r]] = 0]
    /\ chat_pc' = [chat_pc EXCEPT ![r] = "done"]
    /\ UNCHANGED <<cache, agents, teacher>>
    /\ UNCHANGED notchat

ChatInit ==
    /\ cache = 0
    /\ agents = 0
    /\ locked = [a \in Agents |-> 0]
    /\ chat_pc = [r \in Requests |-> "none"]
    /\ teacher = [r \in Requests |-> 0]

(***************************************************************************)
(* TeacherAgent::input (teacher.rs): one turn.  Each action runs input     *)
(* from one await to the next.  A delta is named by its place in its       *)
(* stream, a tool call by its round and its place in the round.  An append *)
(* to the window runs add_conversation_message to its end; what its awaits *)
(* (the insert, the summary request, the progress update) do is an input   *)
(* of the step.  The window holds a message as its place in `conversation` *)
(* and its length.                                                         *)
(***************************************************************************)
\* what the awaits of one add_conversation_message may do: the insert fails;
\* or the insert succeeds and, should the window need a summary, the model
\* request fails, the progress update fails, the progress read fails, or
\* all succeed and the new progress text has newbp bytes
AppendOutcomes ==
    {[kind |-> k, newbp |-> 0] : k \in {"insert", "provider", "db_write", "db_read"}}
        \cup {[kind |-> "ok", newbp |-> b] : b \in ProgressLens}

\* the byte length of the text that counts for a message: a Tool message's
\* content (a chapter is long, an error text short), an Assistant message's
\* content (each delta adds its bytes; refusal and tool calls are not
\* counted, no content counts 0), a User message's text
MessageLen(msg) ==
    IF msg.role = "tool"
    THEN IF msg.content = "chapter 1" THEN 78 ELSE 38
    ELSE IF msg.role = "assistant"
    THEN 38 * Len(msg.content)
    ELSE 38

\* MessagesManager::add_conversation_message, with clean_conversation_messages,
\* save_progress and save_to_book_progress: the window after the call and
\* whether the call returned Ok
add_conversation_message(w, m, o) ==
    LET tc == w.token_count + message_token_count(m)
        u == Append(w.unsaved_conversation, m)
        r == clean_saved_messages_only(w.saved_conversation, tc)
        s == r.saved \o u
        tc2 == r.token_count + tokens(o.newbp) - tokens(w.book_progress)
        r2 == clean_saved_messages_only(s, tc2)
    IN  IF o.kind = "insert"
        THEN [ok |-> FALSE, w |-> [w EXCEPT !.token_count = tc]]
        ELSE IF r.ok
        THEN [ok |-> TRUE,
              w |-> [w EXCEPT !.saved_conversation = r.saved,
                              !.unsaved_conversation = u,
                              !.token_count = r.token_count]]
        ELSE IF o.kind \in {"provider", "db_write"}
        THEN [ok |-> FALSE,
              w |-> [w EXCEPT !.saved_conversation = r.saved,
                              !.unsaved_conversation = u,
                              !.token_count = r.token_count]]
        ELSE IF o.kind = "db_read"
        THEN [ok |-> FALSE,
              w |-> [w EXCEPT !.saved_conversation = s,
                              !.unsaved_conversation = <<>>,
                              !.token_count = r.token_count]]
        ELSE [ok |-> r2.ok /\ tokens(o.newbp) <= quarter,
              w |-> [saved_conversation |-> r2.saved,
                     unsaved_conversation |-> <<>>,
                     token_count |-> r2.token_count,
                     book_progress |-> o.newbp]]

\* MessagesManager::add_conversation_message writes the row before it pushes
\* and trims: the row is in history_message unless the insert itself failed
Inserted(o) == o.kind # "insert"

\* history_message after the append of msg with outcome o
WrittenNext(msg, o) ==
    IF Inserted(o) THEN Append(history_written, msg) ELSE history_written

\* the append of the message that takes the next place in `conversation`
AppendNext(msg, o) ==
    add_conversation_message(messages,
                             [id |-> Len(conversation) + 1, len |-> MessageLen(msg)],
                             o)

\* a list with the unsaved conversation ahead of the saved one
get_messages_unsaved_first(w) ==
    <<[kind |-> "instruction", id |-> 0], [kind |-> "book_info", id |-> 0],
      [kind |-> "study_plan", id |-> 0]>>
        \o [k \in DOMAIN w.unsaved_conversation |->
               [kind |-> "message", id |-> w.unsaved_conversation[k].id]]
        \o <<[kind |-> "book_progress", id |-> 0]>>
        \o [k \in DOMAIN w.saved_conversation |->
               [kind |-> "message", id |-> w.saved_conversation[k].id]]
\* MessagesManager::get_messages: the three leading blocks, the saved
\* conversation, the book progress, the unsaved conversation
get_messages(w) ==
    <<[kind |-> "instruction", id |-> 0], [kind |-> "book_info", id |-> 0],
      [kind |-> "study_plan", id |-> 0]>>
        \o [k \in DOMAIN w.saved_conversation |->
               [kind |-> "message", id |-> w.saved_conversation[k].id]]
        \o <<[kind |-> "book_progress", id |-> 0]>>
        \o [k \in DOMAIN w.unsaved_conversation |->
               [kind |-> "message", id |-> w.unsaved_conversation[k].id]]

\* the places a delta can take in one response stream
DeltaSlots == {1, 2}
\* the places a tool call can take in one response
CallSlots == {1, 2}
\* what the model may ask for: a chapter of the book, a chapter it lacks,
\* a malformed payload, a tool nobody registered
CallFunctions ==
    {[name |-> "GetChapterContent", arguments |-> "1."],
     [name |-> "GetChapterContent", arguments |-> "9."],
     [name |-> "GetChapterContent", arguments |-> "{"],
     [name |-> "NoSuchTool", arguments |-> "1."]}

\* the locals of one pass of the loop
NewRound == [messages |-> <<>>, whole_content |-> <<>>, whole_refusal |-> <<>>,
             held |-> <<>>, tool_calls |-> <<>>, ended |-> FALSE]

round == Len(rounds)
\* the locals of the pass that runs (none before the first request)
this == IF rounds = <<>> THEN NewRound ELSE rounds[round]
n_deltas == Len(this.whole_content) + Len(this.whole_refusal) + Len(this.held)
\* the tool calls the model has asked for since input began
calls_asked ==
    Cardinality({rk \in (DOMAIN rounds) \X CallSlots : rk[2] <= Len(rounds[rk[1]].held)})

\* input returns
Return(res, why) ==
    /\ in_pc' = "returned"
    /\ in_result' = res
    /\ in_cause' = why

\* a channel that drops what is sent
SendDropped(list) == events' = events
\* tx.send of a list of events, one after the other
Send(list) == events' = events \o list

\* line 76, add_conversation_message(msg) returns Ok
InputStart(o) ==
    /\ in_pc = "idle"
    /\ AppendNext([role |-> "user"], o).ok
    /\ messages' = AppendNext([role |-> "user"], o).w
    /\ conversation' = Append(conversation, [role |-> "user"])
    /\ history_written' = WrittenNext([role |-> "user"], o)
    /\ in_pc' = "request"
    /\ UNCHANGED <<in_result, in_cause, listener_open, events, rounds,
                   tool_results, aborted>>
    /\ UNCHANGED notinput

\* line 76, add_conversation_message(msg) returns Err
InputStartErr(o) ==
    /\ in_pc = "idle"
    /\ ~AppendNext([role |-> "user"], o).ok
    /\ messages' = AppendNext([role |-> "user"], o).w
    /\ history_written' = WrittenNext([role |-> "user"], o)
    /\ Return("Err", "append")
    /\ UNCHANGED <<listener_open, events, conversation, rounds, tool_results, aborted>>
    /\ UNCHANGED notinput

\* lines 79-89, create_stream returns the stream
Request ==
    /\ in_pc = "request"
    /\ round < MaxRounds
    /\ rounds' = Append(rounds, [NewRound EXCEPT !.messages = get_messages(messages)])
    /\ in_pc' = "stream"
    /\ UNCHANGED <<in_result, in_cause, listener_open, events, conversation, history_written,
                   messages, tool_results, aborted>>
    /\ UNCHANGED notinput

\* line 86, create_stream fails
RequestErr ==
    /\ in_pc = "request"
    /\ round < MaxRounds
    /\ Return("Err", "provider")
    /\ UNCHANGED <<listener_open, events, conversation, history_written, messages, rounds, tool_results, aborted>>
    /\ UNCHANGED notinput

\* a forwarding that sends every content delta twice
StreamContentTwice ==
    /\ in_pc = "stream"
    /\ n_deltas + 1 \in DeltaSlots
    /\ LET content == [round |-> round, delta |-> Len(this.whole_content) + 1]
       IN  /\ rounds' = [rounds EXCEPT ![round].whole_content = Append(@, content)]
           /\ IF listener_open
              THEN /\ Send(<<[kind |-> "Content", of |-> content],
                           [kind |-> "Content", of |-> content]>>)
                   /\ UNCHANGED <<in_pc, in_result, in_cause>>
              ELSE /\ Return("Err", "listener")
                   /\ UNCHANGED events
    /\ UNCHANGED <<listener_open, conversation, history_written, messages, tool_results, aborted>>
    /\ UNCHANGED notinput
\* lines 90-98, a chunk with a content delta
StreamContent ==
    /\ in_pc = "stream"
    /\ n_deltas + 1 \in DeltaSlots
    /\ LET content == [round |-> round, delta |-> Len(this.whole_content) + 1]
       IN  /\ rounds' = [rounds EXCEPT ![round].whole_content = Append(@, content)]
           /\ IF listener_open
              THEN /\ Send(<<[kind |-> "Content", of |-> content]>>)
                   /\ UNCHANGED <<in_pc, in_result, in_cause>>
              ELSE /\ Return("Err", "listener")
                   /\ UNCHANGED events
    /\ UNCHANGED <<listener_open, conversation, history_written, messages, tool_results, aborted>>
    /\ UNCHANGED notinput

\* a forwarding that sends every refusal delta as it arrives
StreamRefusalForwarded ==
    /\ in_pc = "stream"
    /\ n_deltas + 1 \in DeltaSlots
    /\ rounds' = [rounds EXCEPT ![round].whole_refusal =
                     Append(@, [round |-> round, delta |-> Len(this.whole_refusal) + 1])]
    /\ Send(<<[kind |-> "Refusal",
               of |-> <<[round |-> round, delta |-> Len(this.whole_refusal) + 1]>>]>>)
    /\ UNCHANGED <<in_pc, in_result, in_cause, listener_open, conversation, history_written, messages,
                   tool_results, aborted>>
    /\ UNCHANGED notinput
\* lines 90-101, a chunk with a refusal delta
StreamRefusal ==
    /\ in_pc = "stream"
    /\ n_deltas + 1 \in DeltaSlots
    /\ rounds' = [rounds EXCEPT ![round].whole_refusal =
                     Append(@, [round |-> round, delta |-> Len(this.whole_refusal) + 1])]
    /\ UNCHANGED <<in_pc, in_result, in_cause, listener_open, events, conversation, history_written, messages,
                   tool_results, aborted>>
    /\ UNCHANGED notinput

\* lines 90-104, chunks that make the reassembler hold one more tool call
StreamToolCall(function) ==
    /\ in_pc = "stream"
    /\ n_deltas + 1 \in DeltaSlots
    /\ Len(this.held) + 1 \in CallSlots
    /\ calls_asked < MaxCalls
    /\ rounds' = [rounds EXCEPT ![round].held =
                     Append(@, [id |-> [round |-> round, call |-> Len(@) + 1],
                                name |-> function.name,
                                arguments |-> function.arguments])]
    /\ UNCHANGED <<in_pc, in_result, in_cause, listener_open, events, conversation, history_written, messages,
                   tool_results, aborted>>
    /\ UNCHANGED notinput

\* a stream error that first saves what was received as an Assistant message
StreamErrFlush ==
    /\ in_pc = "stream"
    /\ Return("Err", "provider")
    /\ conversation' = Append(conversation,
                              [role |-> "assistant", content |-> this.whole_content,
                               refusal |-> this.whole_refusal, tool_calls |-> <<>>])
    /\ UNCHANGED <<listener_open, events, history_written, messages, rounds,
                   tool_results, aborted>>
    /\ UNCHANGED notinput
\* line 91, a chunk of the stream is an error
StreamErr ==
    /\ in_pc = "stream"
    /\ Return("Err", "provider")
    /\ UNCHANGED <<listener_open, events, conversation, history_written, messages, rounds, tool_results, aborted>>
    /\ UNCHANGED notinput

\* the ids of the calls the reassembler holds at stream end
RoundCallIds == {this.held[k].id : k \in DOMAIN this.held}

\* get_tool_calls drains a HashMap: the calls come in any order
DrainOrders ==
    {s \in [DOMAIN this.held -> {this.held[k] : k \in DOMAIN this.held}] :
        \A i, j \in DOMAIN this.held : i # j => s[i] # s[j]}

\* a loop that goes on after a turn without tool calls
LoopNeverBreaks(tool_calls) == FALSE
\* a loop that ends after the first turn, tool calls or not
LoopAlwaysBreaks(tool_calls) == TRUE
\* line 123, the loop's exit
LoopBreaks(tool_calls) == tool_calls = <<>>

\* a builder that is never given the refusal
MessageBuilderWithoutRefusal(whole_content, whole_refusal, tool_calls) ==
    [role |-> "assistant",
     content |-> IF whole_content # <<>> THEN whole_content ELSE <<>>,
     refusal |-> <<>>,
     tool_calls |-> IF tool_calls # <<>> THEN tool_calls ELSE <<>>]
\* lines 106-119: the builder of the Assistant message is given the content,
\* the refusal and the tool calls that are not empty; <<>> is a field left
\* unset
MessageBuilder(whole_content, whole_refusal, tool_calls) ==
    [role |-> "assistant",
     content |-> IF whole_content # <<>> THEN whole_content ELSE <<>>,
     refusal |-> IF whole_refusal # <<>> THEN whole_refusal ELSE <<>>,
     tool_calls |-> IF tool_calls # <<>> THEN tool_calls ELSE <<>>]

\* lines 106-125: the stream ended; the Refusal event, the Assistant message and
\* its append, which returns Ok or Err
StreamEnd(tool_calls, o) ==
    /\ in_pc = "stream"
    /\ LET assistant_message ==
               MessageBuilder(this.whole_content, this.whole_refusal, tool_calls)
           a == AppendNext(assistant_message, o)
       IN  IF this.whole_refusal # <<>> /\ ~listener_open
           THEN /\ Return("Err", "listener")
                /\ UNCHANGED <<events, conversation, history_written, messages, rounds>>
           ELSE /\ Send(IF this.whole_refusal # <<>>
                        THEN <<[kind |-> "Refusal", of |-> this.whole_refusal]>>
                        ELSE <<>>)
                /\ messages' = a.w
                /\ history_written' = WrittenNext(assistant_message, o)
                /\ rounds' = [rounds EXCEPT ![round].tool_calls = tool_calls,
                                            ![round].ended = TRUE]
                /\ IF a.ok
                   THEN /\ conversation' = Append(conversation, assistant_message)
                        /\ IF LoopBreaks(tool_calls)
                           THEN Return("Ok", "none")
                           ELSE /\ in_pc' = "tool_events"
                                /\ UNCHANGED <<in_result, in_cause>>
                   ELSE /\ Return("Err", "append")
                        /\ UNCHANGED conversation
    /\ UNCHANGED <<listener_open, tool_results, aborted>>
    /\ UNCHANGED notinput

\* lines 126-129: a ToolCall event for every call of the round
SendToolCalls ==
    /\ in_pc = "tool_events"
    /\ IF listener_open \/ this.tool_calls = <<>>
       THEN /\ Send([k \in DOMAIN this.tool_calls |->
                       [kind |-> "ToolCall", of |-> this.tool_calls[k]]])
            /\ in_pc' = "dispatch"
            /\ UNCHANGED <<in_result, in_cause>>
       ELSE /\ Return("Err", "listener")
            /\ UNCHANGED events
    /\ UNCHANGED <<listener_open, conversation, history_written, messages, rounds, tool_results, aborted>>
    /\ UNCHANGED notinput

\* the calls of the round that are spawned as tasks
SpawnedIds ==
    {this.tool_calls[k].id : k \in {j \in DOMAIN this.tool_calls :
                                        this.tool_calls[j].name \in DOMAIN tools}}

\* line 130: tool_manager.call runs and returns; some tasks may abort
Dispatch(join_errors) ==
    /\ in_pc = "dispatch"
    /\ join_errors \subseteq SpawnedIds
    /\ tool_results' = ToolManagerCall(this.tool_calls, tools, join_errors)
    /\ aborted' = aborted \cup join_errors
    /\ in_pc' = "result_events"
    /\ UNCHANGED <<in_result, in_cause, listener_open, events, conversation, history_written, messages, rounds>>
    /\ UNCHANGED notinput

\* lines 131-134: a ToolResult event for every result
SendToolResults ==
    /\ in_pc = "result_events"
    /\ IF listener_open \/ tool_results = <<>>
       THEN /\ Send([k \in DOMAIN tool_results |->
                       [kind |-> "ToolResult", of |-> tool_results[k].tool_call_id]])
            /\ in_pc' = "append_results"
            /\ UNCHANGED <<in_result, in_cause>>
       ELSE /\ Return("Err", "listener")
            /\ UNCHANGED events
    /\ UNCHANGED <<listener_open, conversation, history_written, messages, rounds, tool_results, aborted>>
    /\ UNCHANGED notinput

\* MessagesManager::add_conversation_messages: add_conversation_message for
\* each message in order, up to the first that returns Err; n counts the
\* appends that returned Ok, written the rows that were inserted
RECURSIVE add_conversation_messages(_, _, _)
add_conversation_messages(w, ms, os) ==
    IF ms = <<>>
    THEN [ok |-> TRUE, w |-> w, n |-> 0, written |-> 0]
    ELSE LET a == add_conversation_message(w, Head(ms), Head(os))
             rest == add_conversation_messages(a.w, Tail(ms), Tail(os))
         IN  IF a.ok
             THEN [rest EXCEPT !.n = @ + 1, !.written = @ + 1]
             ELSE [ok |-> FALSE, w |-> a.w, n |-> 0,
                   written |-> IF Inserted(Head(os)) THEN 1 ELSE 0]

\* the Tool messages of the results, the last result first
ToolMessagesReversed ==
    [k \in DOMAIN tool_results |->
        [role |-> "tool",
         tool_call_id |-> tool_results[Len(tool_results) + 1 - k].tool_call_id,
         content |-> tool_results[Len(tool_results) + 1 - k].content]]
\* the Tool messages of the results of this round
ToolMessages ==
    [k \in DOMAIN tool_results |->
        [role |-> "tool", tool_call_id |-> tool_results[k].tool_call_id,
         content |-> tool_results[k].content]]

\* lines 135-137: add_conversation_messages appends the results one by one
AppendToolResults(os) ==
    /\ in_pc = "append_results"
    /\ LET b == add_conversation_messages(
                    messages,
                    [k \in DOMAIN ToolMessages |->
                        [id |-> Len(conversation) + k,
                         len |-> MessageLen(ToolMessages[k])]],
                    os)
       IN  /\ messages' = b.w
           /\ conversation' = conversation \o SubSeq(ToolMessages, 1, b.n)
           /\ history_written' = history_written \o SubSeq(ToolMessages, 1, b.written)
           /\ IF b.ok
              THEN /\ in_pc' = "request"
                   /\ UNCHANGED <<in_result, in_cause>>
              ELSE Return("Err", "append")
    /\ UNCHANGED <<listener_open, events, rounds, tool_results, aborted>>
    /\ UNCHANGED notinput

\* the client goes away: the receiver of the channel is dropped
CloseListener ==
    /\ in_pc # "returned"
    /\ listener_open
    /\ listener_open' = FALSE
    /\ UNCHANGED <<in_pc, in_result, in_cause, events, conversation, history_written, messages, rounds,
                   tool_results, aborted>>
    /\ UNCHANGED notinput

\* the windows MessagesManager::new builds over an empty history: the blocks
\* that pass its checks, and their total
InputWindows ==
    {[saved_conversation |-> <<>>, unsaved_conversation |-> <<>>,
      token_count |-> update_token_count(ins, BookInfoBareLen + BookInfoWrapLen,
                                         sp + StudyPlanWrapLen, bp, <<>>, <<>>),
      book_progress |-> bp] :
        ins \in InstructionLens,
        sp \in {l \in StudyPlanLens : tokens(l + StudyPlanWrapLen) <= quarter},
        bp \in {l \in ProgressLens : tokens(l) <= quarter}}

InputInit ==
    /\ in_pc = "idle"
    /\ in_result = "none"
    /\ in_cause = "none"
    /\ listener_open = TRUE
    /\ events = <<>>
    /\ conversation = <<>>
    /\ history_written = <<>>
    /\ messages \in InputWindows
    /\ rounds = <<>>
    /\ tool_results = <<>>
    /\ aborted = {}

(***************************************************************************)
(* The teacher_agent table (teacher.rs, student.rs): one row stands for    *)
(* the conversation of a (student, book) pair.  The table's schema is not  *)
(* part of the sources; (student_id, book_id) is taken to be its key, as   *)
(* "insert or ignore" supposes.                                            *)
(***************************************************************************)
Pairs == {"pair_1", "pair_2"}
ChapterNumbers == {"", "1"}
MemoryLists == {<<>>, <<"note">>}
AgentRows == [pair : Pairs, current_chapter_number : ChapterNumbers,
              memories : MemoryLists]

\* the rows of a pair
RowsOf(table, pair) == {row \in table : row.pair = pair}

\* a plain insert: the row is added whatever the table holds
Insert(table, row) == table \cup {row}
\* insert or ignore: the row is added unless a row has its key
InsertOrIgnore(table, row) ==
    IF RowsOf(table, row.pair) # {} THEN table ELSE table \cup {row}

\* TeacherAgent::init
TeacherAgentInit(pair) ==
    /\ teacher_agent' =
          InsertOrIgnore(teacher_agent,
                         [pair |-> pair, current_chapter_number |-> "",
                          memories |-> <<>>])
    /\ agent_op' = [name |-> "init", pair |-> pair, result |-> "Ok"]
    /\ UNCHANGED notrecord

\* TeacherAgent::init, the statement fails
TeacherAgentInitErr(pair) ==
    /\ agent_op' = [name |-> "init", pair |-> pair, result |-> "Err"]
    /\ UNCHANGED teacher_agent
    /\ UNCHANGED notrecord

\* a writer of the row's columns: the row of the pair takes new values
UpdateAgentRow(new) ==
    /\ RowsOf(teacher_agent, new.pair) # {}
    /\ teacher_agent' = (teacher_agent \ RowsOf(teacher_agent, new.pair)) \cup {new}
    /\ agent_op' = [name |-> "update", pair |-> new.pair, result |-> "Ok"]
    /\ UNCHANGED notrecord

\* delete_book: DELETE FROM teacher_agent for the pair
DeleteAgentRow(pair) ==
    /\ teacher_agent' = teacher_agent \ RowsOf(teacher_agent, pair)
    /\ agent_op' = [name |-> "delete", pair |-> pair, result |-> "Ok"]
    /\ UNCHANGED notrecord

RecordInit ==
    /\ teacher_agent = {}
    /\ agent_op = [name |-> "none", pair |-> "none", result |-> "none"]

RecordNext ==
    \/ \E pair \in Pairs : TeacherAgentInit(pair)
    \/ \E pair \in Pairs : TeacherAgentInitErr(pair)
    \/ \E new \in AgentRows : UpdateAgentRow(new)
    \/ \E pair \in Pairs : DeleteAgentRow(pair)

(***************************************************************************)
(* Several conversations (api/user.rs chat, teacher/messages.rs            *)
(* MessagesDatabase).  The tables are shared; every statement of a         *)
(* MessagesDatabase names its student_id and book_id.  The cache has one   *)
(* entry per pair and every agent its own mutex.  The budget and the trim  *)
(* are left out here: a window holds what its agent loaded and appended.   *)
(***************************************************************************)
\* two books of one student
ConvPairs == {[student |-> 1, book |-> 1], [student |-> 1, book |-> 2]}
\* the places a message can take in the conversation of one pair
TurnSlots == {1, 2}

\* a where clause that names the student only
OfStudent(row, pair) == row.student = pair.student
\* where student_id = ? and book_id = ?
OfPair(row, pair) == row.student = pair.student /\ row.book = pair.book

\* select ... from history_message where ... order by update_time asc
SelectHistory(pair) == SelectSeq(history_rows, LAMBDA row : OfPair(row, pair))

\* chat finds no agent for the pair: TeacherAgent::new loads the window from
\* the rows of the pair, and the agent enters the cache
ChatLoad(pair) ==
    /\ agent_cache[pair] = "none"
    /\ agent_cache' = [agent_cache EXCEPT ![pair] = "live"]
    /\ agent_window' = [agent_window EXCEPT ![pair] = SelectHistory(pair)]
    /\ conv_actor' = pair
    /\ UNCHANGED <<history_rows, progress_rows, agent_lock>>
    /\ UNCHANGED notconv

\* the task chat spawned takes the mutex of the pair's agent: input begins
TurnBegin(pair) ==
    /\ agent_cache[pair] = "live"
    /\ ~agent_lock[pair]
    /\ agent_lock' = [agent_lock EXCEPT ![pair] = TRUE]
    /\ conv_actor' = pair
    /\ UNCHANGED <<history_rows, progress_rows, agent_cache, agent_window>>
    /\ UNCHANGED notconv

\* input appends a message: the insert into history_message, then the push
TurnAppend(pair) ==
    /\ agent_lock[pair]
    /\ Len(SelectHistory(pair)) + 1 \in TurnSlots
    /\ LET row == [student |-> pair.student, book |-> pair.book,
                   place |-> Len(SelectHistory(pair)) + 1]
       IN  /\ history_rows' = Append(history_rows, row)
           /\ agent_window' = [agent_window EXCEPT ![pair] = Append(@, row)]
    /\ conv_actor' = pair
    /\ UNCHANGED <<progress_rows, agent_cache, agent_lock>>
    /\ UNCHANGED notconv

\* an append saves the progress: update book_progress ... where ...
TurnSave(pair) ==
    /\ agent_lock[pair]
    /\ progress_rows' =
          {IF OfPair(row, pair)
           THEN [row EXCEPT !.saved = Len(SelectHistory(pair))]
           ELSE row : row \in progress_rows}
    /\ conv_actor' = pair
    /\ UNCHANGED <<history_rows, agent_cache, agent_window, agent_lock>>
    /\ UNCHANGED notconv

\* input returns and the task drops the guard of the mutex
TurnEnd(pair) ==
    /\ agent_lock[pair]
    /\ agent_lock' = [agent_lock EXCEPT ![pair] = FALSE]
    /\ conv_actor' = pair
    /\ UNCHANGED <<history_rows, progress_rows, agent_cache, agent_window>>
    /\ UNCHANGED notconv

\* the cache drops the entry of the pair while no task uses the agent
AgentEvict(pair) ==
    /\ agent_cache[pair] = "live"
    /\ ~agent_lock[pair]
    /\ agent_cache' = [agent_cache EXCEPT ![pair] = "none"]
    /\ agent_window' = [agent_window EXCEPT ![pair] = <<>>]
    /\ conv_actor' = pair
    /\ UNCHANGED <<history_rows, progress_rows, agent_lock>>
    /\ UNCHANGED notconv

ConvInit ==
    /\ history_rows = <<>>
    /\ progress_rows = {[student |-> pair.student, book |-> pair.book, saved |-> 0] :
                            pair \in ConvPairs}
    /\ agent_cache = [pair \in ConvPairs |-> "none"]
    /\ agent_window = [pair \in ConvPairs |-> <<>>]
    /\ agent_lock = [pair \in ConvPairs |-> FALSE]
    /\ conv_actor = [student |-> 0, book |-> 0]

ConvNext ==
    \/ \E pair \in ConvPairs : ChatLoad(pair)
    \/ \E pair \in ConvPairs : TurnBegin(pair)
    \/ \E pair \in ConvPairs : TurnAppend(pair)
    \/ \E pair \in ConvPairs : TurnSave(pair)
    \/ \E pair \in ConvPairs : TurnEnd(pair)
    \/ \E pair \in ConvPairs : AgentEvict(pair)

(***************************************************************************)
(* The window and its store: the specification of the Bounded Conversation *)
(* Window.                                                                 *)
(***************************************************************************)
WindowInit ==
    /\ history_message = <<>>
    /\ db_save_index = 0
    /\ db_study_plan \in StudyPlanLens
    /\ db_progress = 40
    /\ db_instruction \in InstructionLens
    /\ db_book_info \in BookInfoLens
    /\ win = "none"
    /\ instruction = 0
    /\ book_info = 0
    /\ study_plan = 0
    /\ book_progress = 0
    /\ saved_conversation = <<>>
    /\ unsaved_conversation = <<>>
    /\ token_count = 0
    /\ pc = "idle"
    /\ op = "none"
    /\ cur = NoMsg
    /\ new_plan = 0
    /\ result = "none"
    /\ cause = "none"
    /\ next_id = 1
    /\ pre = [saved |-> <<>>, unsaved |-> <<>>, token_count |-> 0]
    /\ requests = 0
    /\ evicted = <<>>
    /\ trim_before = <<>>
    /\ trim_removed = <<>>
    /\ appended_here = {}

\* no input is under way
InputIdle ==
    InputInit /\ \A w \in InputWindows : messages.token_count <= w.token_count

\* the window is not used
WindowIdle ==
    WindowInit /\ db_instruction = 40 /\ db_book_info = 30 /\ db_study_plan = 26

vars == <<winvars, streamvars, toolvars, progressvars, chatvars, inputvars, recordvars,
         pairvars, bookvars, tokenvars, numbervars, updatevars>>

Init == WindowInit /\ StreamInit /\ ToolsInit /\ ProgressInit /\ ChatInit /\ InputIdle /\ RecordInit
        /\ ConvInit /\ BookInit /\ TokensIdle /\ NumbersIdle /\ UpdatesIdle

\* The calls of this specification are new, add_conversation_message and drop;
\* save_progress runs where the trim asks for it.
Next ==
    \/ New
    \/ NewDbFail
    \/ \E len \in MsgLens : Add(len)
    \/ AddDbOk
    \/ AddDbFail
    \/ \E written \in BOOLEAN : Interrupt(written)
    \/ SummarizeOk
    \/ SummarizeFail
    \/ \E partial \in BOOLEAN : SaveDbFail(partial)
    \/ \E newbp \in ProgressLens, readok \in BOOLEAN : SaveDbOk(newbp, readok)
    \/ Drop

Spec == Init /\ [][Next]_vars

\* The window with its blocks replaced as well: update_study_plan and
\* save_progress called directly, and the builds that check `new - old`.
BlocksNext ==
    \/ New
    \/ NewDbFail
    \/ \E len \in MsgLens : Add(len)
    \/ AddDbOk
    \/ AddDbFail
    \/ SaveProgress
    \/ SummarizeOk
    \/ SummarizeFail
    \/ \E partial \in BOOLEAN : SaveDbFail(partial)
    \/ \E newbp \in ProgressLens, readok \in BOOLEAN : SaveDbOk(newbp, readok)
    \/ \E newbp \in ProgressLens : SaveDbOkPanic(newbp)
    \/ \E raw \in StudyPlanLens : UpdateStudyPlan(raw)
    \/ \E raw \in StudyPlanLens : UpdateStudyPlanPanic(raw)
    \/ UpdateStudyPlanDbFail

BlocksSpecInit ==
    WindowIdle /\ StreamInit /\ ToolsInit /\ ProgressInit /\ ChatInit /\ InputIdle /\ RecordInit
        /\ ConvInit /\ BookInit /\ TokensIdle /\ NumbersIdle /\ UpdatesIdle

SpecBlocks == BlocksSpecInit /\ [][BlocksNext]_vars

\* The stream reassembler alone: any fragments in any order, then the drain.
StreamNext ==
    \/ \E chunk \in Chunks : MergeChunk(chunk)
    \/ GetToolCalls

StreamSpecInit ==
    WindowIdle /\ StreamInit /\ ToolsInit /\ ProgressInit /\ ChatInit /\ InputIdle /\ RecordInit
        /\ ConvInit /\ BookInit /\ TokensIdle /\ NumbersIdle /\ UpdatesIdle

SpecStream == StreamSpecInit /\ [][StreamNext]_vars

\* One dispatch of one batch.
ToolsNext ==
    \/ \E batch \in Batches : CallStart(batch)
    \/ \E k \in 1..MaxBatch : TaskRun(k)
    \/ \E k \in 1..MaxBatch : TaskAbort(k)
    \/ Join

\* Turns of several conversations.
ConvSpecInit ==
    WindowIdle /\ StreamInit /\ ToolsInit /\ ProgressInit /\ ChatInit /\ InputIdle /\ RecordInit
        /\ ConvInit /\ BookInit /\ TokensIdle /\ NumbersIdle /\ UpdatesIdle

SpecConv == ConvSpecInit /\ [][ConvNext]_vars

\* The statements on the teacher_agent table.
RecordSpecInit ==
    WindowIdle /\ StreamInit /\ ToolsInit /\ ProgressInit /\ ChatInit /\ InputIdle /\ RecordInit
        /\ ConvInit /\ BookInit /\ TokensIdle /\ NumbersIdle /\ UpdatesIdle

SpecRecord == RecordSpecInit /\ [][RecordNext]_vars

\* Registrations on a fresh ToolManager.
RegistryNext ==
    \/ \E tool \in Tools : AddTool(tool)
    \/ \E list \in [1..2 -> Tools] : AddTools(list)

RegistrySpecInit ==
    WindowIdle /\ StreamInit /\ RegistryInit /\ ProgressInit /\ ChatInit /\ InputIdle /\ RecordInit
        /\ ConvInit /\ BookInit /\ TokensIdle /\ NumbersIdle /\ UpdatesIdle

SpecRegistry == RegistrySpecInit /\ [][RegistryNext]_vars

ToolsSpecInit ==
    WindowIdle /\ StreamInit /\ ToolsInit /\ ProgressInit /\ ChatInit /\ InputIdle /\ RecordInit
        /\ ConvInit /\ BookInit /\ TokensIdle /\ NumbersIdle /\ UpdatesIdle

SpecTools == ToolsSpecInit /\ [][ToolsNext]_vars

\* Updates merged into one chapter entry, one after the other.
ProgressNext == \E other \in ChapterProgressValues : MergeChapter(other)

ProgressSpecInit ==
    WindowIdle /\ StreamInit /\ ToolsInit /\ ProgressInit /\ ChatInit /\ InputIdle /\ RecordInit
        /\ ConvInit /\ BookInit /\ TokensIdle /\ NumbersIdle /\ UpdatesIdle

SpecProgress == ProgressSpecInit /\ [][ProgressNext]_vars

\* Updates merged into the progress record of one book, one after the other.
BookNext == \E other \in BookUpdates : MergeBook(other)

BookSpecInit ==
    WindowIdle /\ StreamInit /\ ToolsInit /\ ProgressInit /\ ChatInit /\ InputIdle /\ RecordInit
        /\ ConvInit /\ BookInit /\ TokensIdle /\ NumbersIdle /\ UpdatesIdle

SpecBook == BookSpecInit /\ [][BookNext]_vars

\* The size estimate of any one message.
TokensNext == CountTokens

TokensSpecInit ==
    WindowIdle /\ StreamInit /\ ToolsInit /\ ProgressInit /\ ChatInit /\ InputIdle /\ RecordInit
        /\ ConvInit /\ BookInit /\ TokensInit /\ NumbersIdle /\ UpdatesIdle

SpecTokens == TokensSpecInit /\ [][TokensNext]_vars

\* Chapter numbers compared, written and read back.
NumbersNext ==
    \/ Compare
    \/ ShowNumber
    \/ \E dotted \in BOOLEAN : FromStr(dotted)

NumbersSpecInit ==
    WindowIdle /\ StreamInit /\ ToolsInit /\ ProgressInit /\ ChatInit /\ InputIdle /\ RecordInit
        /\ ConvInit /\ BookInit /\ TokensIdle /\ NumbersInit /\ UpdatesIdle

SpecNumbers == NumbersSpecInit /\ [][NumbersNext]_vars

\* The tasks of a batch of two progress tools, in every interleaving.
UpdatesNext ==
    \E t \in Tasks :
        \/ ReadProgress(t)
        \/ WriteProgress(t)
        \/ AddMemory(t)

UpdatesSpecInit ==
    WindowIdle /\ StreamInit /\ ToolsInit /\ ProgressInit /\ ChatInit /\ InputIdle /\ RecordInit
        /\ ConvInit /\ BookInit /\ TokensIdle /\ NumbersIdle /\ UpdatesInit

SpecUpdates == UpdatesSpecInit /\ [][UpdatesNext]_vars

\* Chat requests for one pair, the cache and the spawned tasks.
ChatNext ==
    \/ \E r \in Requests : ChatHit(r)
    \/ \E r \in Requests : ChatMiss(r)
    \/ \E r \in Requests : ChatWait(r)
    \/ \E r \in Requests : InitOk(r)
    \/ \E r \in Requests : InitErr(r)
    \/ Evict
    \/ \E r \in Requests : Lock(r)
    \/ \E r \in Requests : InputEnd(r)

ChatSpecInit ==
    WindowIdle /\ StreamInit /\ ToolsInit /\ ProgressInit /\ ChatInit /\ InputIdle /\ RecordInit
        /\ ConvInit /\ BookInit /\ TokensIdle /\ NumbersIdle /\ UpdatesIdle

SpecChat == ChatSpecInit /\ [][ChatNext]_vars

\* One input call, its model, its tools and its listener.
InputNext ==
    \/ \E o \in AppendOutcomes : InputStart(o)
    \/ \E o \in AppendOutcomes : InputStartErr(o)
    \/ Request
    \/ RequestErr
    \/ StreamContent
    \/ StreamRefusal
    \/ \E function \in CallFunctions : StreamToolCall(function)
    \/ StreamErr
    \/ \E tool_calls \in DrainOrders, o \in AppendOutcomes :
          StreamEnd(tool_calls, o)
    \/ SendToolCalls
    \/ \E join_errors \in SUBSET RoundCallIds : Dispatch(join_errors)
    \/ SendToolResults
    \/ \E os \in [DOMAIN tool_results -> AppendOutcomes] : AppendToolResults(os)
    \/ CloseListener

InputSpecInit ==
    WindowIdle /\ StreamInit /\ ToolsInit /\ ProgressInit /\ ChatInit /\ InputInit /\ RecordInit
        /\ ConvInit /\ BookInit /\ TokensIdle /\ NumbersIdle /\ UpdatesIdle

SpecInput == InputSpecInit /\ [][InputNext]_vars

\* The same, with the runtime polling the task whenever it can go on: the
\* provider delivers the next chunk or ends the stream, the store and the
\* tools answer, so some step of input is always taken while one is possible.
InputFairInit ==
    WindowIdle /\ StreamInit /\ ToolsInit /\ ProgressInit /\ ChatInit /\ InputInit /\ RecordInit
        /\ ConvInit /\ BookInit /\ TokensIdle /\ NumbersIdle /\ UpdatesIdle

SpecInputFair == InputFairInit /\ [][InputNext]_vars /\ WF_vars(InputNext)

(***************************************************************************)
(* Properties of the window.                                               *)
(***************************************************************************)
Range(s) == {s[i] : i \in 1..Len(s)}

RECURSIVE Reverse(_)
Reverse(s) == IF s = <<>> THEN <<>> ELSE Append(Reverse(Tail(s)), Head(s))

\* the conversation messages the window holds
Held == Range(saved_conversation) \cup Range(unsaved_conversation)

\* C1: whenever add_conversation_message returns Ok, the reported total
\* (get_token_count) is at most the token budget.
C1_AddOkWithinBudget ==
    (op = "add" /\ pc = "idle" /\ result = "Ok") => token_count <= token_budget

\* an append that returned Ok after the trim had popped messages
C1_Witness ==
    /\ op = "add" /\ pc = "idle" /\ result = "Ok"
    /\ trim_removed # <<>>
    /\ Held # {}

C7_InstructionWithinQuarter ==
    /\ win = "live" => tokens(instruction) <= quarter
    /\ (op = "new" /\ tokens(db_instruction) > quarter) => requests = 0

C10_FailedInsertLeavesWindow ==
    (op = "add" /\ pc = "idle" /\ result = "Err" /\ cause = "insert")
        => Snapshot = pre


(***************************************************************************)
(* Properties of the stream reassembler.                                   *)
(***************************************************************************)
\* the slots some fragment arrived for
SlotsSeen == {i \in Slots : frag_first[i] # NoChunk}

\* the call C3 expects for a slot: id and name of its first fragment, and all
\* its argument texts in arrival order
ExpectedCall(i) ==
    [occupied |-> TRUE, id |-> frag_first[i].id,
     name |-> frag_first[i].function.name, arguments |-> frag_args[i]]

\* C3: when the first fragment of every slot carries id, name and an argument
\* text, get_tool_calls yields exactly one call per slot, with the id and the
\* name of the slot's first fragment and with the concatenation, in arrival
\* order, of all argument texts received for the slot.
C3_ReassembledPerSlot ==
    (drained /\ \A i \in SlotsSeen : Complete(frag_first[i]))
        => \E o \in Orders(SlotsSeen) :
              stream_out = [k \in DOMAIN o |-> ExpectedCall(o[k])]

\* two slots were reassembled from interleaved fragments, one of them from
\* two non-empty argument texts
C3_Witness ==
    /\ drained
    /\ \A i \in SlotsSeen : Complete(frag_first[i])
    /\ Len(stream_out) = 2
    /\ \E k \in DOMAIN stream_out : Len(stream_out[k].arguments) = 2


(***************************************************************************)
(* Properties of the tool dispatch.                                        *)
(***************************************************************************)
\* the Tool messages returned for a call id
ResultsFor(id) == {k \in DOMAIN outputs : outputs[k].tool_call_id = id}

Registered(call) == call.name \in DOMAIN tools

\* an unregistered name is answered "Tool not found" under the call's id, and
\* no tool is invoked for it
NotFoundAnswered(call) ==
    /\ Cardinality(ResultsFor(call.id)) = 1
    /\ \A k \in ResultsFor(call.id) : outputs[k].content = "Tool not found"
    /\ call.id \notin invoked

\* a registered tool's call is answered once, with what the tool returned
ToolAnswered(call) ==
    /\ Cardinality(ResultsFor(call.id)) = 1
    /\ \A k \in ResultsFor(call.id) : outputs[k].content = ToolFuture(call).text

\* C4 as stated: call returns one "Tool not found" message for every call to
\* an unregistered name and one Tool message with the tool's output for every
\* call to a registered tool.
C4_EveryCallAnswered ==
    tm_pc = "returned" =>
        /\ \A k \in DOMAIN tm_calls :
              IF Registered(tm_calls[k])
              THEN ToolAnswered(tm_calls[k])
              ELSE NotFoundAnswered(tm_calls[k])
        /\ Len(outputs) = Len(tm_calls)

\* C4 amended: as C4, but a call to a registered tool whose task aborted (a
\* join error) gets no Tool message, and the others get the tool's output or
\* its error text; the batch yields one result per call whose task did not
\* abort.
C4_EveryCallAnsweredUnlessAborted ==
    tm_pc = "returned" =>
        /\ \A k \in DOMAIN tm_calls :
              IF Registered(tm_calls[k])
              THEN IF task[tm_calls[k].id] = "aborted"
                   THEN ResultsFor(tm_calls[k].id) = {}
                   ELSE ToolAnswered(tm_calls[k])
              ELSE NotFoundAnswered(tm_calls[k])
        /\ Len(outputs) = Len(tm_calls)
              - Cardinality({id \in CallIds : task[id] = "aborted"})

\* a batch of one call that resolved and one to an unregistered name returned
\* two results
C4_Witness ==
    /\ tm_pc = "returned"
    /\ Len(tm_calls) = 2
    /\ \E i, j \in DOMAIN tm_calls :
          /\ Registered(tm_calls[i]) /\ task[tm_calls[i].id] = "ok"
          /\ ~Registered(tm_calls[j])
    /\ Len(outputs) = 2


(***************************************************************************)
(* Properties of the progress merge.                                       *)
(***************************************************************************)
\* C5: after a merge, every objective of the update that is completed and whose
\* description was already stored is stored as completed with no progress and
\* no next step, and every stored objective whose description is not in the
\* update is as it was.
C5_CompletedObjectiveStored ==
    /\ \A u \in merge_update.objectives :
          (u.completed /\ \E s \in merge_before.objectives : SameObjective(s, u))
          => \E s \in chapter_progress.objectives :
                /\ SameObjective(s, u)
                /\ s.completed
                /\ s.progress = "None"
                /\ s.next_step = "None"
    /\ \A s \in merge_before.objectives :
          (\A u \in merge_update.objectives : ~SameObjective(s, u))
          => s \in chapter_progress.objectives


(***************************************************************************)
(* Properties of the chat handler.                                         *)
(***************************************************************************)
\* the requests whose task is inside teacher.input
InProgress == {r \in Requests : chat_pc[r] = "input"}

\* C8: at most one input of the pair is in progress at any time.
C8_OneInputPerPair == Cardinality(InProgress) <= 1


(***************************************************************************)
(* Properties of one input call.                                           *)
(***************************************************************************)
\* where the listener received an event
EventAt(kind, of) == {i \in DOMAIN events : events[i] = [kind |-> kind, of |-> of]}

\* the first model turn asked for a single tool call and the second turn
\* ended with content only
SingleCallThenContent ==
    /\ Len(rounds) >= 2
    /\ rounds[1].ended /\ Len(rounds[1].tool_calls) = 1
    /\ rounds[2].ended /\ rounds[2].tool_calls = <<>>
    /\ rounds[2].whole_refusal = <<>> /\ rounds[2].whole_content # <<>>

\* every Content event of the second turn was received, after event i
SecondContentAfter(i) ==
    \A d \in DOMAIN rounds[2].whole_content :
        \E k \in EventAt("Content", rounds[2].whole_content[d]) : i < k

\* the second turn's Assistant message is the last message appended
SecondTurnAppended ==
    /\ conversation # <<>>
    /\ Last(conversation).role = "assistant"
    /\ Last(conversation).tool_calls = <<>>

\* C6 as stated: after a first turn with a single tool call and a second turn
\* with content only, the listener has received the ToolCall event, then the
\* call's ToolResult event, then the second turn's Content events, and input
\* has returned Ok after two model requests.
C6_ToolCallResultContentThenOk ==
    SingleCallThenContent =>
        /\ \E i \in EventAt("ToolCall", rounds[1].tool_calls[1]) :
             \E j \in EventAt("ToolResult", rounds[1].tool_calls[1].id) :
                i < j /\ SecondContentAfter(j)
        /\ in_pc = "returned" /\ in_result = "Ok"
        /\ Len(rounds) = 2

\* C6 amended: as C6, but no ToolResult event is received when the call's task
\* aborted, and input returns Ok if the second Assistant message was appended
\* and the append's error if not; in both cases after two model requests.
C6_ToolCallResultContentThenReturn ==
    SingleCallThenContent =>
        /\ \E i \in EventAt("ToolCall", rounds[1].tool_calls[1]) :
             /\ SecondContentAfter(i)
             /\ IF rounds[1].tool_calls[1].id \in aborted
                THEN EventAt("ToolResult", rounds[1].tool_calls[1].id) = {}
                ELSE \E j \in EventAt("ToolResult", rounds[1].tool_calls[1].id) :
                        i < j /\ SecondContentAfter(j)
        /\ in_pc = "returned"
        /\ in_result = IF SecondTurnAppended THEN "Ok" ELSE "Err"
        /\ in_result = "Err" => in_cause = "append"
        /\ Len(rounds) = 2

\* the scenario ran to its end: tool call, result, content, Ok
C6_Witness ==
    /\ SingleCallThenContent
    /\ EventAt("ToolResult", rounds[1].tool_calls[1].id) # {}
    /\ in_result = "Ok"


\* a call to a registered tool whose payload does not parse or whose logic
\* returns an error
ToolFails(call) == call.name \in DOMAIN tools /\ ~ToolFuture(call).ok

\* the text ToolManager::call pairs with a call whose task did not abort
ExpectedContent(call) ==
    IF call.name \in DOMAIN tools THEN ToolFuture(call).text ELSE "Tool not found"

\* the results of the current round that carry a call's id
RoundResultsFor(id) == {k \in DOMAIN tool_results : tool_results[k].tool_call_id = id}

\* the Tool messages of the conversation that carry a call's id
ToolMessagesFor(id) ==
    {k \in DOMAIN conversation :
        conversation[k].role = "tool" /\ conversation[k].tool_call_id = id}

\* C11: once dispatch has returned, a call whose payload failed to parse or
\* whose tool returned an error has exactly one Tool message, with the error
\* text and the call's id; every other call whose task did not abort has its
\* result too; input has not failed, and when it comes to the next model request
\* the error text is in the window as that call's Tool message.
C11_ToolErrorIsAResult ==
    /\ in_pc \in {"result_events", "append_results"} =>
          /\ in_result = "none"
          /\ \A k \in DOMAIN this.tool_calls :
                LET call == this.tool_calls[k]
                IN  call.id \notin aborted =>
                      /\ Cardinality(RoundResultsFor(call.id)) = 1
                      /\ \A r \in RoundResultsFor(call.id) :
                            tool_results[r].content = ExpectedContent(call)
                      /\ ToolFails(call) =>
                            ExpectedContent(call) \in
                               {"Failed to parse arguments", "Chapter not found"}
    /\ (in_pc = "request" /\ round >= 1) =>
          \A k \in DOMAIN this.tool_calls :
             LET call == this.tool_calls[k]
             IN  (ToolFails(call) /\ call.id \notin aborted) =>
                   \E m \in ToolMessagesFor(call.id) :
                      conversation[m].content = ExpectedContent(call)

\* a round with one failing call and one that succeeded was dispatched, and the
\* next model request has been issued
C11_Witness ==
    /\ round = 2
    /\ in_pc = "stream"
    /\ \E i, j \in DOMAIN rounds[1].tool_calls :
          /\ ToolFails(rounds[1].tool_calls[i])
          /\ ToolMessagesFor(rounds[1].tool_calls[i].id) # {}
          /\ ~ToolFails(rounds[1].tool_calls[j])
          /\ ToolMessagesFor(rounds[1].tool_calls[j].id) # {}


\* C12: the step in which the provider request or a chunk of the stream fails
\* makes input return that error and changes neither the events the listener
\* has received nor the messages appended so far, the first of which is the
\* user input; no Assistant message is added for the failed model call.
C12_ProviderErrorKeepsEventsAndMessages ==
    [][(in_result = "none" /\ in_result' = "Err" /\ in_cause' = "provider") =>
          /\ in_pc' = "returned"
          /\ events' = events
          /\ conversation' = conversation
          /\ conversation # <<>> /\ conversation[1].role = "user"
          /\ Cardinality({k \in DOMAIN conversation' :
                             conversation'[k].role = "assistant"})
             = Cardinality({r \in DOMAIN rounds' : rounds'[r].ended})]_vars

\* the second model call failed in its stream after events had been delivered
C12_Witness ==
    /\ in_result = "Err" /\ in_cause = "provider"
    /\ round = 2 /\ ~this.ended
    /\ this.whole_content # <<>>
    /\ Len(events) >= 3


\* the last message appended is an Assistant turn without tool calls
LastIsPlainAssistant ==
    /\ conversation # <<>>
    /\ Last(conversation).role = "assistant"
    /\ Last(conversation).tool_calls = <<>>

\* a step that appends an Assistant turn with tool calls goes on to the
\* dispatch, and a request after the first follows a dispatched round
ToolTurnGoesOn ==
    /\ (/\ Len(conversation') = Len(conversation) + 1
        /\ Last(conversation').role = "assistant"
        /\ Last(conversation').tool_calls # <<>>)
       => (in_pc' = "tool_events" /\ in_result' = "none")
    /\ (in_pc = "tool_events" /\ in_pc' \notin {"tool_events", "returned"})
       => in_pc' = "dispatch"
    /\ (in_pc = "dispatch" /\ in_pc' # "dispatch") => in_pc' = "result_events"
    /\ (in_pc = "request" /\ in_pc' = "stream" /\ round >= 1)
       => (this.tool_calls # <<>> /\ in_result = "none")

\* C13: input has returned Ok exactly when the last message appended is an
\* Assistant turn without tool calls; an Assistant turn with tool calls is
\* followed by their dispatch and, before any Ok, by another model request; and
\* input eventually returns.
C13_OkIffPlainTurnAndCompletes ==
    /\ [](in_result = "Ok" <=> LastIsPlainAssistant)
    /\ [][ToolTurnGoesOn]_vars
    /\ [](in_result = "Ok" =>
            \A k \in DOMAIN conversation :
               (conversation[k].role = "assistant" /\ conversation[k].tool_calls # <<>>)
               => \E j \in DOMAIN conversation :
                     j > k /\ conversation[j].role = "assistant")
    /\ <>(in_pc = "returned")

\* input returned Ok after a turn with tool calls and a turn without
C13_Witness ==
    /\ in_result = "Ok"
    /\ round >= 2
    /\ rounds[1].tool_calls # <<>>


(***************************************************************************)
(* C14: within one input, the next model request is issued only after      *)
(* every Tool message of the current dispatch round has been appended to   *)
(* the window, so the message list of that request contains all results of *)
(* the preceding round.                                                    *)
(***************************************************************************)
\* the result is a Tool message of the conversation and, if its place is i,
\* the message list holds the message of place i
ResultListed(tool_result, list) ==
    \E i \in DOMAIN conversation :
        /\ conversation[i].role = "tool"
        /\ conversation[i].tool_call_id = tool_result.tool_call_id
        /\ \E j \in DOMAIN list : list[j] = [kind |-> "message", id |-> i]

Dispatches == in_pc = "dispatch" /\ in_pc' = "result_events"

\* the places of the messages the step appends
AppendedPlaces == (DOMAIN conversation') \ (DOMAIN conversation)

C15_EventsBeforeDispatchAndAppend ==
    [][/\ Dispatches =>
            \A k \in DOMAIN this.tool_calls :
                EventAt("ToolCall", this.tool_calls[k]) # {}
       /\ \A i \in AppendedPlaces :
            conversation'[i].role = "tool" =>
                EventAt("ToolResult", conversation'[i].tool_call_id) # {}]_vars

\* both calls of a round were announced, dispatched and answered, and both
\* results were sent and then appended
C15_Witness ==
    /\ in_pc = "request"
    /\ round = 1
    /\ Len(this.tool_calls) = 2
    /\ Len(tool_results) = 2
    /\ \A k \in DOMAIN tool_results :
          /\ EventAt("ToolResult", tool_results[k].tool_call_id) # {}
          /\ ToolMessagesFor(tool_results[k].tool_call_id) # {}
    /\ \A k \in DOMAIN this.tool_calls :
          \E e \in EventAt("ToolCall", this.tool_calls[k]) :
              \A j \in DOMAIN tool_results :
                  \A f \in EventAt("ToolResult", tool_results[j].tool_call_id) : e < f

(***************************************************************************)
(* C16: every content delta received from the provider is sent to the      *)
(* listener at most once and before the next delta is read, so the Content *)
(* events of a model call appear in arrival order and their concatenation  *)
(* equals the content of the Assistant message appended at stream end.     *)
(***************************************************************************)
IsContentOf(e, r) == e.kind = "Content" /\ e.of.round = r
IsAssistant(m) == m.role = "assistant"

\* the deltas of the Content events of model call r, in the order received
ContentSent(r) ==
    LET sel == SelectSeq(events, LAMBDA e : IsContentOf(e, r))
    IN  [k \in DOMAIN sel |-> sel[k].of]

\* the Assistant messages of the conversation, one per ended model call
Assistants == SelectSeq(conversation, IsAssistant)

\* the send of the last delta failed: the listener had gone
LastDeltaUnsent(r) ==
    /\ r = round
    /\ in_result = "Err"
    /\ in_cause = "listener"
    /\ rounds[r].whole_content # <<>>
    /\ ContentSent(r) = Front(rounds[r].whole_content)

C16_ContentForwardedOnceInOrder ==
    /\ \A r \in DOMAIN rounds :
          \/ ContentSent(r) = rounds[r].whole_content
          \/ LastDeltaUnsent(r)
    /\ Len(Assistants) <= Len(rounds)
    /\ \A r \in DOMAIN Assistants :
          /\ Assistants[r].content = rounds[r].whole_content
          /\ Assistants[r].content = ContentSent(r)

\* a model call delivered two content deltas and its Assistant message is
\* appended
C16_Witness ==
    \E r \in DOMAIN Assistants :
        /\ Len(Assistants[r].content) = 2
        /\ Len(ContentSent(r)) = 2
        /\ ContentSent(r)[1].delta = 1
        /\ ContentSent(r)[2].delta = 2

(***************************************************************************)
(* C17: refusal deltas are never forwarded individually: for each model    *)
(* call the listener receives at most one Refusal event, sent only after   *)
(* the stream has ended, carrying the concatenation of all refusal deltas  *)
(* of that call, and none when no refusal text was received.               *)
(***************************************************************************)
\* where the listener received a Refusal event of model call r
RefusalAt(r) ==
    {i \in DOMAIN events :
        /\ events[i].kind = "Refusal"
        /\ events[i].of # <<>>
        /\ events[i].of[1].round = r}

\* where the listener received an event for a delta of model call r
ContentAt(r) == {i \in DOMAIN events : IsContentOf(events[i], r)}

C17_OneRefusalAfterStreamEnd ==
    /\ \A i \in DOMAIN events : events[i].kind = "Refusal" => events[i].of # <<>>
    /\ \A r \in DOMAIN rounds :
          /\ Cardinality(RefusalAt(r)) <= 1
          /\ rounds[r].whole_refusal = <<>> => RefusalAt(r) = {}
          /\ (r = round /\ in_pc = "stream") => RefusalAt(r) = {}
          /\ \A i \in RefusalAt(r) :
                /\ rounds[r].ended
                /\ events[i].of = rounds[r].whole_refusal
                /\ \A j \in ContentAt(r) : j < i

\* a model call delivered a content delta and a refusal delta, its stream
\* ended and the listener has the Refusal event
C17_Witness ==
    \E r \in DOMAIN rounds :
        /\ rounds[r].ended
        /\ Len(rounds[r].whole_refusal) = 1
        /\ ContentAt(r) # {}
        /\ RefusalAt(r) # {}

(***************************************************************************)
(* C18: in every message list sent to the model, every Tool message        *)
(* references the id of a tool call contained in the immediately preceding *)
(* Assistant turn, also after trimming has evicted messages.               *)
(***************************************************************************)
\* the message at place j of the list is a conversation message of that role
ListedRole(list, j, role) ==
    list[j].kind = "message" /\ conversation[list[j].id].role = role

\* the places of the Assistant messages that precede place j of the list
AssistantsBefore(list, j) ==
    {a \in 1..(j - 1) : ListedRole(list, a, "assistant")}

\* the Assistant turn nearest before place j holds the call the Tool message
\* at place j answers
AnswersPrecedingTurn(list, j) ==
    \E a \in AssistantsBefore(list, j) :
        /\ \A b \in AssistantsBefore(list, j) : b <= a
        /\ \E c \in DOMAIN conversation[list[a].id].tool_calls :
              conversation[list[a].id].tool_calls[c].id
                  = conversation[list[j].id].tool_call_id

C18_ToolMessageFollowsItsTurn ==
    \A r \in DOMAIN rounds :
        \A j \in DOMAIN rounds[r].messages :
            ListedRole(rounds[r].messages, j, "tool")
                => AnswersPrecedingTurn(rounds[r].messages, j)

(***************************************************************************)
(* C19: if the task executing one dispatched tool call aborts (a join      *)
(* failure), ToolManager::call still returns normally, with one result for *)
(* every other call of the batch and with no result for the aborted call.  *)
(***************************************************************************)
\* the calls of the batch whose task aborted
AbortedCalls == {k \in DOMAIN tm_calls : task[tm_calls[k].id] = "aborted"}

C19_JoinFailureDropsOneResult ==
    /\ (tm_pc = "joining" /\ task[handles[join_i].id] = "aborted") => ENABLED Join
    /\ (tm_pc = "returned" /\ AbortedCalls # {}) =>
          \A k \in DOMAIN tm_calls :
              Cardinality(ResultsFor(tm_calls[k].id))
                  = IF k \in AbortedCalls THEN 0 ELSE 1

\* a batch of two calls to registered tools returned after the task of one
\* of them aborted and the other ran
C19_Witness ==
    /\ tm_pc = "returned"
    /\ Len(tm_calls) = 2
    /\ Cardinality(AbortedCalls) = 1
    /\ \E k \in DOMAIN tm_calls : task[tm_calls[k].id] = "ok"
    /\ Len(outputs) = 1

(***************************************************************************)
(* C20: after any sequence of ToolManager::add_tool calls the registry     *)
(* holds exactly one entry per distinct tool name, namely the most         *)
(* recently registered tool of that name, and get_tools returns exactly    *)
(* one declaration per distinct registered name.                           *)
(***************************************************************************)
\* the names add_tool was called with
AddedNames == {added[i].name : i \in DOMAIN added}

\* the tool of the last add_tool call with that name
LastAdded(n) ==
    added[CHOOSE i \in DOMAIN added :
            /\ added[i].name = n
            /\ \A j \in DOMAIN added : added[j].name = n => j <= i]

C20_RegistryLastWriteWins ==
    /\ DOMAIN tools = AddedNames
    /\ \A n \in DOMAIN tools : tools[n] = LastAdded(n)
    /\ Len(get_tools(tools)) = Cardinality(AddedNames)
    /\ \A n \in AddedNames :
          \E k \in DOMAIN get_tools(tools) :
              /\ get_tools(tools)[k] =
                    [name |-> n, definition |-> LastAdded(n).definition]
              /\ \A j \in DOMAIN get_tools(tools) :
                    get_tools(tools)[j].name = n => j = k

\* a name was registered twice with different tools, another name once
C20_Witness ==
    /\ Len(added) = 3
    /\ Cardinality(AddedNames) = 2
    /\ \E i, j \in DOMAIN added :
          /\ i < j
          /\ added[i].name = added[j].name
          /\ added[i] # added[j]
          /\ tools[added[j].name] = added[j]

(***************************************************************************)
(* C21: window construction fails whenever a context block (the book info  *)
(* after the chapter infos have been dropped, the study plan or the book   *)
(* progress) alone is larger than token_budget/4; so in every successfully *)
(* constructed window each context block is at most token_budget/4.        *)
(***************************************************************************)
\* the book info block new builds from the stored book info
StoredBookInfoBlock ==
    (IF tokens(db_book_info) > quarter THEN BookInfoBareLen ELSE db_book_info)
        + BookInfoWrapLen

\* a context block the store gives is larger than a quarter of the budget
StoredBlockTooLarge ==
    \/ tokens(StoredBookInfoBlock) > quarter
    \/ tokens(db_study_plan + StudyPlanWrapLen) > quarter
    \/ tokens(db_progress) > quarter

\* the step is a call of new
CallsNew == win = "none" /\ pc = "idle" /\ op' = "new"

\* new has returned Ok and nothing was called since
Constructed == win = "live" /\ pc = "idle" /\ op = "new" /\ result = "Ok"

C21_LargeContextBlockFailsNew ==
    /\ [][(CallsNew /\ StoredBlockTooLarge)
             => (pc' = "idle" /\ result' = "Err" /\ win' = "none")]_vars
    /\ [](Constructed =>
             /\ tokens(book_info) <= quarter
             /\ tokens(study_plan) <= quarter
             /\ tokens(book_progress) <= quarter)

\* new has failed on a study plan larger than a quarter of the budget
C21_Witness ==
    /\ win = "none"
    /\ op = "new"
    /\ result = "Err"
    /\ cause = "budget"
    /\ tokens(db_study_plan + StudyPlanWrapLen) > quarter
    /\ tokens(StoredBookInfoBlock) <= quarter
    /\ tokens(db_progress) <= quarter

(***************************************************************************)
(* C22: TeacherAgent::init is idempotent: after any number of calls for    *)
(* the same (student, book) exactly one conversation record exists for the *)
(* pair, and a call made when the record already exists changes nothing    *)
(* (the stored current chapter and memories keep their values).            *)
(***************************************************************************)
\* the step is a call of init for the pair that returns Ok
InitReturnsOk(pair) ==
    agent_op' = [name |-> "init", pair |-> pair, result |-> "Ok"]

C22_InitIsIdempotent ==
    /\ [][\A pair \in Pairs :
            InitReturnsOk(pair) =>
                /\ Cardinality(RowsOf(teacher_agent', pair)) = 1
                /\ RowsOf(teacher_agent, pair) # {} => teacher_agent' = teacher_agent]_vars
    /\ [](\A pair \in Pairs : Cardinality(RowsOf(teacher_agent, pair)) <= 1)

\* init has just returned Ok for a pair whose row holds a chapter and a note
C22_Witness ==
    /\ agent_op.name = "init"
    /\ agent_op.result = "Ok"
    /\ RowsOf(teacher_agent, agent_op.pair)
          = {[pair |-> agent_op.pair, current_chapter_number |-> "1",
              memories |-> <<"note">>]}

(***************************************************************************)
(* C23: an input turn on one (student, book) conversation never reads or   *)
(* modifies the window, the persisted messages or the progress of a        *)
(* different conversation, and turns of distinct conversations can be in   *)
(* progress at the same time without waiting for each other.               *)
(***************************************************************************)
\* the rows of book_progress of a pair
ProgressOf(rows, pair) == {row \in rows : OfPair(row, pair)}

\* the rows of history_message of a pair, in insert order
HistoryOf(rows, pair) == SelectSeq(rows, LAMBDA row : OfPair(row, pair))

\* the step leaves everything of the pair as it is
LeavesAlone(pair) ==
    /\ HistoryOf(history_rows', pair) = HistoryOf(history_rows, pair)
    /\ ProgressOf(progress_rows', pair) = ProgressOf(progress_rows, pair)
    /\ agent_window'[pair] = agent_window[pair]
    /\ agent_cache'[pair] = agent_cache[pair]
    /\ agent_lock'[pair] = agent_lock[pair]

\* the window of a pair holds rows of that pair only
WindowOfOwnRows(pair) ==
    \A k \in DOMAIN agent_window[pair] : OfPair(agent_window[pair][k], pair)

C23_ConversationsAreIndependent ==
    /\ [][\A pair \in ConvPairs : pair # conv_actor' => LeavesAlone(pair)]_vars
    /\ [](\A pair \in ConvPairs : WindowOfOwnRows(pair))
    /\ [](\A pair \in ConvPairs :
             (agent_cache[pair] = "live" /\ ~agent_lock[pair]) => ENABLED TurnBegin(pair))

\* both conversations hold a stored message and a turn of each is under way
C23_Witness ==
    /\ \A pair \in ConvPairs :
          /\ agent_lock[pair]
          /\ Len(agent_window[pair]) >= 1
          /\ \E row \in ProgressOf(progress_rows, pair) : row.saved >= 1

(***************************************************************************)
(* C24: a window constructed afresh from the Conversation Store (replay of *)
(* the persisted messages followed by the budget trim) holds the same      *)
(* conversation messages in the same order as the live in-memory window    *)
(* that performed the appends.                                             *)
(***************************************************************************)
\* what new makes of the store as it is: the rows up to the save index are
\* the saved conversation, the others the unsaved one, and the trim runs
Replayed ==
    LET s == SubSeq(history_message, 1, db_save_index)
        u == SubSeq(history_message, db_save_index + 1, Len(history_message))
        tc == update_token_count(db_instruction, StoredBookInfoBlock,
                                 db_study_plan + StudyPlanWrapLen, db_progress, s, u)
        r == clean_saved_messages_only(s, tc)
    IN  [ok |-> ~StoredBlockTooLarge /\ r.ok, conversation |-> r.saved \o u]

\* the live window is at rest after a call that returned Ok
LiveAtRest == win = "live" /\ pc = "idle" /\ result = "Ok"

\* every row of the store was written by an append of this window that
\* went through
OwnRows ==
    {history_message[i].id : i \in DOMAIN history_message} \subseteq appended_here

C24_ReplayEqualsLiveWindow ==
    (LiveAtRest /\ OwnRows /\ Replayed.ok)
        => Replayed.conversation = saved_conversation \o unsaved_conversation

(***************************************************************************)
(* C25: progress merging is monotone: after BookProgress::merge (and the   *)
(* ChapterProgress::merge it applies per chapter) no chapter entry, no     *)
(* objective description and no note that existed before is missing; the   *)
(* notes afterwards are exactly the union of the old notes and the         *)
(* update's notes; chapters not mentioned in the update are unchanged.     *)
(***************************************************************************)
DescriptionsOf(entry) == {o.description : o \in entry.objectives}

C25_MergeIsMonotone ==
    LET before == progress_before.chapter_progress
        update == progress_update.chapter_progress
        after == progress.chapter_progress
    IN  /\ DOMAIN before \subseteq DOMAIN after
        /\ \A c \in DOMAIN before :
              DescriptionsOf(before[c]) \subseteq DescriptionsOf(after[c])
        /\ progress_before.notes \subseteq progress.notes
        /\ progress.notes = progress_before.notes \cup progress_update.notes
        /\ \A c \in DOMAIN before \ DOMAIN update : after[c] = before[c]

\* a merge into a record of two chapters with objectives and a note, by an
\* update that names one of the chapters, another objective and another note
C25_Witness ==
    /\ DOMAIN progress_before.chapter_progress = BookChapters
    /\ DOMAIN progress_update.chapter_progress = {"1."}
    /\ DescriptionsOf(progress_before.chapter_progress["1."]) = {"d1"}
    /\ DescriptionsOf(progress_update.chapter_progress["1."]) = {"d2"}
    /\ DescriptionsOf(progress_before.chapter_progress["2."]) # {}
    /\ progress_before.notes = {"n1"}
    /\ progress_update.notes = {"n2"}
    /\ progress = BookProgressMerge(progress_before, progress_update)

(***************************************************************************)
(* C26: ToolManager::call starts a task for every call to a registered     *)
(* tool before it waits for any of them, so the tool executions of one     *)
(* batch may overlap in any interleaving, and it returns only after every  *)
(* started task has finished or aborted; the tool_call_id of every         *)
(* returned Tool message is the id of the call that produced it.           *)
(***************************************************************************)
\* the calls of the batch to a registered tool
RegisteredCalls == {i \in DOMAIN tm_calls : tm_calls[i].name \in DOMAIN tools}

\* the message outputs[m] was produced by the call tm_calls[i]
ProducedBy(m, i) ==
    /\ outputs[m].tool_call_id = tm_calls[i].id
    /\ outputs[m].content =
          IF i \in RegisteredCalls THEN ToolFuture(tm_calls[i]).text
          ELSE "Tool not found"

C26_TasksStartedBeforeAwaitAndPaired ==
    \* all tasks are started once the dispatch waits, and none besides
    /\ tm_pc \in {"joining", "returned"} =>
          \A i \in DOMAIN tm_calls :
              i \in RegisteredCalls <=> task[tm_calls[i].id] # "none"
    \* whichever started task still runs may be the next to end
    /\ tm_pc = "joining" =>
          \A k \in DOMAIN handles :
              task[handles[k].id] = "running"
                  => ENABLED TaskRun(k) /\ ENABLED TaskAbort(k)
    \* the dispatch has returned only when no task is left running
    /\ tm_pc = "returned" =>
          \A i \in RegisteredCalls :
              task[tm_calls[i].id] \in {"ok", "err", "aborted"}
    \* every message carries the id of its call, and no call has two
    /\ \A m \in DOMAIN outputs : \E i \in DOMAIN tm_calls : ProducedBy(m, i)
    /\ \A m, n \in DOMAIN outputs :
          outputs[m].tool_call_id = outputs[n].tool_call_id => m = n

\* two tasks of one batch, the second ended while the first still runs
C26_Witness ==
    /\ tm_pc = "joining"
    /\ join_i = 1
    /\ Len(handles) = 2
    /\ task[handles[1].id] = "running"
    /\ task[handles[2].id] = "ok"

(***************************************************************************)
(* C27: when a fragment arrives for a slot index that does not yet exist   *)
(* and it lacks an id, a name or an argument text, merge_chunk discards    *)
(* it: no slot is created for that index and every existing slot is        *)
(* unchanged.                                                              *)
(***************************************************************************)
\* the fragment has no id, no name or no argument text
Lacking(chunk) ==
    \/ chunk.id = "None"
    \/ ~chunk.function.some
    \/ chunk.function.name = "None"
    \/ chunk.function.arguments = <<>>

C27_IncompleteFirstFragmentDiscarded ==
    [][\A chunk \in Chunks :
          (MergeChunk(chunk) /\ ~tool_call_map[chunk.index].occupied
                             /\ Lacking(chunk))
              => /\ ~tool_call_map'[chunk.index].occupied
                 /\ \A i \in Slots : tool_call_map'[i] = tool_call_map[i]]_vars

\* a slot exists, and the first fragment of the other index lacked a part
\* and left no slot
C27_Witness ==
    \E i, j \in Slots :
        /\ tool_call_map[i].occupied
        /\ frag_first[j] # NoChunk
        /\ Lacking(frag_first[j])
        /\ ~tool_call_map[j].occupied

(***************************************************************************)
(* C28: for every fragment stream, get_tool_calls returns exactly one Tool *)
(* Call for each slot index that was created, and the ids of the returned  *)
(* Tool Calls are pairwise distinct.                                       *)
(***************************************************************************)
\* the slot indexes that were created
CreatedSlots == {i \in Slots : tool_call_map[i].occupied}

C28_OneCallPerSlotDistinctIds ==
    drained =>
        /\ Len(stream_out) = Cardinality(CreatedSlots)
        /\ \A i \in CreatedSlots :
              \E k \in DOMAIN stream_out : stream_out[k] = tool_call_map[i]
        /\ \A k, l \in DOMAIN stream_out :
              stream_out[k].id = stream_out[l].id => k = l

(***************************************************************************)
(* C29: at every stream end exactly one Assistant message is appended to   *)
(* the window; it carries content iff the accumulated content is           *)
(* non-empty, a refusal iff the accumulated refusal is non-empty, and tool *)
(* calls iff the reassembler produced at least one call.                   *)
(***************************************************************************)
\* this step is the end of the running stream: the loop over the chunks is
\* left without an error of the provider
StreamEnds ==
    /\ in_pc = "stream"
    /\ in_pc' # "stream"
    /\ ~(in_result' = "Err" /\ in_cause' = "provider")
    /\ rounds' = [rounds EXCEPT ![round].tool_calls = rounds'[round].tool_calls,
                                ![round].ended = rounds'[round].ended]

\* the step reached the append of the Assistant message
AppendReached == StreamEnds /\ rounds'[round].ended

\* msg is an Assistant message with the fields the round has gathered
CarriesTheRound(msg) ==
    /\ msg.role = "assistant"
    /\ msg.content # <<>> <=> this.whole_content # <<>>
    /\ msg.content = this.whole_content
    /\ msg.refusal # <<>> <=> this.whole_refusal # <<>>
    /\ msg.refusal = this.whole_refusal
    /\ msg.tool_calls # <<>> <=> this.held # <<>>
    /\ msg.tool_calls \in DrainOrders

\* the statement as it stands: every stream end appends one such message
C29_OneAssistantPerStreamEnd ==
    [][StreamEnds =>
          /\ Len(conversation') = Len(conversation) + 1
          /\ SubSeq(conversation', 1, Len(conversation)) = conversation
          /\ CarriesTheRound(conversation'[Len(conversation')])]_vars

\* list is `before` with one message of the round appended
OneAppended(before, list) ==
    /\ Len(list) = Len(before) + 1
    /\ SubSeq(list, 1, Len(before)) = before
    /\ CarriesTheRound(list[Len(list)])

\* at a stream end whose append is reached, one such message is handed to
\* add_conversation_message: at most this one row is written, and when the
\* call returns Ok exactly this one message has been appended; when the
\* Refusal event cannot be sent nothing is written, and when the append fails
\* input returns its error
C29_OneAssistantPerStreamEndUnlessErr ==
    [][StreamEnds =>
          IF AppendReached
          THEN /\ \/ history_written' = history_written
                  \/ OneAppended(history_written, history_written')
               /\ IF in_result' # "Err"
                  THEN /\ OneAppended(history_written, history_written')
                       /\ OneAppended(conversation, conversation')
                       /\ conversation'[Len(conversation')]
                             = history_written'[Len(history_written')]
                  ELSE /\ conversation' = conversation
                       /\ in_pc' = "returned"
                       /\ in_cause' = "append"
          ELSE /\ conversation' = conversation
               /\ history_written' = history_written
               /\ in_pc' = "returned"
               /\ in_result' = "Err"
               /\ in_cause' = "listener"
               /\ this.whole_refusal # <<>>
               /\ ~listener_open]_vars

\* a stream that gave no content, a refusal and a tool call has ended and
\* its Assistant message is the last one appended
C29_Witness ==
    /\ rounds # <<>>
    /\ this.ended
    /\ this.whole_content = <<>>
    /\ this.whole_refusal # <<>>
    /\ this.tool_calls # <<>>
    /\ conversation # <<>>
    /\ conversation[Len(conversation)] =
          [role |-> "assistant", content |-> this.whole_content,
           refusal |-> this.whole_refusal, tool_calls |-> this.tool_calls]
    /\ history_written # <<>>
    /\ history_written[Len(history_written)] = conversation[Len(conversation)]

(***************************************************************************)
(* C30: the order in which messages are written to the Conversation Store  *)
(* during a turn is the order in which they are finalized in the window:   *)
(* the user input, then for each round the Assistant message followed by   *)
(* that round's Tool messages in the order dispatch returned them.         *)
(***************************************************************************)
\* the first n results of the round as Tool messages, in the order dispatch
\* returned them
ResultsWritten(n) ==
    [k \in 1..n |->
        [role |-> "tool", tool_call_id |-> tool_results[k].tool_call_id,
         content |-> tool_results[k].content]]

\* what one step of input writes to the store
WritesInOrder ==
    \/ history_written' = history_written
    \/ /\ in_pc = "idle"
       /\ history_written = <<>>
       /\ history_written' = <<[role |-> "user"]>>
    \/ /\ in_pc = "stream"
       /\ OneAppended(history_written, history_written')
    \/ /\ in_pc = "append_results"
       /\ \E n \in DOMAIN tool_results :
             history_written' = history_written \o ResultsWritten(n)

\* the conversation messages the window holds, in its order
WindowMessages == messages.saved_conversation \o messages.unsaved_conversation

\* the window holds its messages in the order of their rows: the message
\* with id k is the k-th row written
WindowInWriteOrder ==
    /\ \A i, j \in DOMAIN WindowMessages :
          i < j => WindowMessages[i].id < WindowMessages[j].id
    /\ \A i \in DOMAIN WindowMessages :
          /\ WindowMessages[i].id \in DOMAIN history_written
          /\ WindowMessages[i].len = MessageLen(history_written[WindowMessages[i].id])

\* the appends that returned Ok are the first rows written, and at most the
\* row of a failed append follows them
AppendedArePrefix ==
    /\ Len(conversation) <= Len(history_written)
    /\ Len(history_written) <= Len(conversation) + 1
    /\ SubSeq(history_written, 1, Len(conversation)) = conversation

C30_StoreOrderIsWindowOrder ==
    /\ [](WindowInWriteOrder /\ AppendedArePrefix)
    /\ [][WritesInOrder]_vars

\* a turn wrote the user input, an Assistant message with two tool calls and
\* the two Tool messages in the order dispatch returned them
C30_Witness ==
    /\ Len(tool_results) = 2
    /\ Len(history_written) = 4
    /\ history_written[1].role = "user"
    /\ history_written[2].role = "assistant"
    /\ Len(history_written[2].tool_calls) = 2
    /\ SubSeq(history_written, 3, 4) = ResultsWritten(2)
    /\ tool_results[1] # tool_results[2]

(***************************************************************************)
(* C31: in every reachable state of a window the reported total size       *)
(* (get_token_count) equals the sum of the size estimates of the fixed     *)
(* blocks and of all conversation messages currently held, after every     *)
(* append, trim, study-plan update and progress save, including calls that *)
(* return an error.                                                        *)
(***************************************************************************)
\* a window exists and no call on it is under way
WindowAtRest == win = "live" /\ pc = "idle"

C31_TotalIsSumOfHeld ==
    (WindowAtRest /\ result \in {"Ok", "Err"}) => Drift = 0

(***************************************************************************)
(* C32: get_messages returns the fixed instruction and context blocks      *)
(* first and after them the conversation tail, with the tail messages in   *)
(* the order in which they were appended.                                  *)
(***************************************************************************)
\* the conversation messages of a list are in the order of their appends
TailInAppendOrder(list) ==
    \A i, j \in DOMAIN list :
        (i < j /\ list[i].kind = "message" /\ list[j].kind = "message")
            => list[i].id < list[j].id

\* the list begins with the instruction, the book info and the study plan
LeadingBlocks(list) ==
    /\ Len(list) >= 3
    /\ list[1].kind = "instruction"
    /\ list[2].kind = "book_info"
    /\ list[3].kind = "study_plan"

RECURSIVE SumOfTexts(_)
SumOfTexts(lens) ==
    IF lens = <<>> THEN 0
    ELSE (Head(lens) + 2) \div 4 + SumOfTexts(Tail(lens))

\* the size the statement gives a part
SizeOfPart(p) == IF p.kind = "ImageUrl" THEN 680 ELSE (p.len + 2) \div 4

\* the size the statement gives a message: its content's parts, and the
\* texts of its refusal and of its tool calls
SizeByText(m) ==
    (IF m.content.kind = "Text" THEN (m.content.len + 2) \div 4 ELSE 0)
        + (IF Len(m.content.parts) >= 1 THEN SizeOfPart(m.content.parts[1]) ELSE 0)
        + (IF Len(m.content.parts) >= 2 THEN SizeOfPart(m.content.parts[2]) ELSE 0)
        + (IF m.refusal >= 0 THEN (m.refusal + 2) \div 4 ELSE 0)
        + SumOfTexts(m.tool_calls)

C33_SizeFollowsText ==
    tk_tokens # -1 => tk_tokens = SizeByText(tk_message)

(***************************************************************************)
(* C34: the comparison of ChapterNumbers is a total order consistent with  *)
(* equality; a number whose first component is -1 (a suffix chapter) sorts *)
(* after every number whose first component is not -1, and otherwise two   *)
(* numbers compare lexicographically, component by component.              *)
(***************************************************************************)
IsSuffix(number) == number # <<>> /\ number[1] = -1

\* the lexicographic comparison: the first place where the two differ
\* decides, and with no such place the shorter one is less
Lexicographic(a, b) ==
    LET shorter == IF Len(a) < Len(b) THEN Len(a) ELSE Len(b)
        differ == {i \in 1..shorter : a[i] # b[i]}
        first == CHOOSE i \in differ : \A j \in differ : i <= j
    IN  IF differ = {} THEN IntCmp(Len(a), Len(b)) ELSE IntCmp(a[first], b[first])

AtMost(o) == o \in {"Less", "Equal"}

C34_ChapterOrder ==
    cn_pc = "compared" =>
        /\ cn_ord.aa = "Equal"
        /\ (cn_ord.ab = "Equal") <=> (cn_a = cn_b)
        /\ (cn_ord.ab = "Less") <=> (cn_ord.ba = "Greater")
        /\ (cn_ord.ab = "Greater") <=> (cn_ord.ba = "Less")
        /\ (AtMost(cn_ord.ab) /\ AtMost(cn_ord.bc)) => AtMost(cn_ord.ac)
        /\ (AtMost(cn_ord.ab) /\ AtMost(cn_ord.bc) /\ cn_ord.ac = "Equal")
               => (cn_ord.ab = "Equal" /\ cn_ord.bc = "Equal")
        /\ (IsSuffix(cn_a) /\ ~IsSuffix(cn_b)) => cn_ord.ab = "Greater"
        /\ (IsSuffix(cn_a) = IsSuffix(cn_b)) => cn_ord.ab = Lexicographic(cn_a, cn_b)

\* a prefix chapter, a numbered chapter and a suffix chapter, compared
C34_Witness ==
    /\ cn_pc = "compared"
    /\ cn_a = <<-1, 0>>
    /\ cn_b = <<0, 12>>
    /\ cn_c = <<12>>
    /\ cn_ord.ab = "Greater"
    /\ cn_ord.bc = "Less"
    /\ cn_ord.ac = "Greater"

(***************************************************************************)
(* C40: the text of a ChapterNumber reads back as the number: parsing what *)
(* Display wrote gives the number again, the empty number and numbers with *)
(* negative components included, and the text parses to the same number    *)
(* with and without its trailing dot.                                      *)
(***************************************************************************)
C40_TextRoundTrip ==
    cn_pc = "parsed" =>
        /\ cn_parsed.ok
        /\ cn_parsed.number = cn_a

\* "-2.12." written and read back without its last dot
C40_Witness ==
    /\ cn_pc = "parsed"
    /\ cn_a = <<-2, 12>>
    /\ cn_text = <<"-", "2", ".", "1", "2", ".">>
    /\ ~cn_dotted
    /\ cn_parsed = [ok |-> TRUE, number |-> <<-2, 12>>]

(***************************************************************************)
(* C35: whenever a model request is issued, every Assistant message with   *)
(* tool calls in the message list is followed in the list by one Tool      *)
(* message for each of its call ids, also when a dispatched task aborted.  *)
(***************************************************************************)
\* the places after place a of the list whose Tool message carries the id
AnswersAfter(list, a, id) ==
    {j \in (a + 1)..Len(list) :
        ListedRole(list, j, "tool") /\ conversation[list[j].id].tool_call_id = id}

C35_RequestAnswersEveryCall ==
    \A r \in DOMAIN rounds :
        \A a \in DOMAIN rounds[r].messages :
            ListedRole(rounds[r].messages, a, "assistant") =>
                \A c \in DOMAIN conversation[rounds[r].messages[a].id].tool_calls :
                    Cardinality(AnswersAfter(rounds[r].messages, a,
                        conversation[rounds[r].messages[a].id].tool_calls[c].id)) = 1

(***************************************************************************)
(* C36: when one dispatch batch holds two ProgressUpdate calls or two      *)
(* AddMemory calls, whose tasks run side by side, the stored progress      *)
(* after the batch reflects both updates in every interleaving.            *)
(***************************************************************************)
\* the store holds what the call brought: every objective of the update in
\* the chapter's entry, or the note among the notes
Reflected(call) ==
    IF call.tool = "ProgressUpdate"
    THEN \A o \in call.args.progress.objectives :
            \E x \in StoredEntry(stored_progress, call.args.chapter).objectives :
                SameObjective(x, o)
    ELSE call.args \in stored_notes

C36_NoLostUpdate ==
    (\A t \in Tasks : tool_pc[t] = "done") => \A t \in Tasks : Reflected(tool_batch[t])

(***************************************************************************)
(* C37: after construction every fixed block stays within a quarter of the *)
(* budget: an update_study_plan or save_to_book_progress call that would   *)
(* install a larger block returns an error and leaves the window's blocks, *)
(* conversation messages and total size as they were before the call.      *)
(***************************************************************************)
\* the study plan and the book progress are within a quarter of the budget
ReplacedBlocksFit == tokens(study_plan) <= quarter /\ tokens(book_progress) <= quarter

\* update_study_plan or save_progress has returned
BlockCallReturned ==
    /\ WindowAtRest
    /\ op \in {"update_study_plan", "save_progress"}
    /\ result \in {"Ok", "Err"}

C37_OversizeBlockRejected ==
    BlockCallReturned =>
        /\ ReplacedBlocksFit
        /\ (result = "Err" /\ cause = "budget") => Snapshot = pre

(***************************************************************************)
(* C38: replacing the study plan or the book progress by a block with a    *)
(* smaller size estimate lowers the reported total by exactly the          *)
(* difference, and the unsigned counter of the total never underflows.     *)
(***************************************************************************)
\* the step replaces a block by a smaller one and removes no message
BlockShrinks ==
    /\ win = "live"
    /\ win' = "live"
    /\ Held' = Held
    /\ tokens(study_plan') <= tokens(study_plan)
    /\ tokens(book_progress') <= tokens(book_progress)
    /\ tokens(study_plan') + tokens(book_progress')
           < tokens(study_plan) + tokens(book_progress)

C38_SmallerBlockLowersTotal ==
    [][BlockShrinks =>
          /\ result' # "Panic"
          /\ token_count - token_count'
                = (tokens(study_plan) - tokens(study_plan'))
                      + (tokens(book_progress) - tokens(book_progress'))]_vars

\* the same where the subtraction does not stop the call
C38_SmallerBlockLowersTotalUnlessPanic ==
    [][(BlockShrinks /\ result' # "Panic") =>
          token_count - token_count'
                = (tokens(study_plan) - tokens(study_plan'))
                      + (tokens(book_progress) - tokens(book_progress'))]_vars

(***************************************************************************)
(* C39: a slot index appears in the reassembler's output if and only if    *)
(* some fragment for that index carried id, name and argument text         *)
(* together; while no such fragment has arrived, the fragments of the      *)
(* index are discarded, argument-only ones included; and the argument of a *)
(* slot is the concatenation of the argument texts from its first          *)
(* self-sufficient fragment onward.                                        *)
(***************************************************************************)
\* the slot indexes for which a self-sufficient fragment arrived
WholeSlots == {i \in Slots : frag_whole[i]}

C39_SlotIffSelfSufficientFragment ==
    /\ \A i \in Slots :
          /\ tool_call_map[i].occupied <=> frag_whole[i]
          /\ tool_call_map[i].arguments = frag_since[i]
          /\ ~frag_whole[i] => tool_call_map[i] = Vacant
    /\ drained =>
          \E o \in Orders(WholeSlots) :
              /\ DOMAIN stream_out = DOMAIN o
              /\ \A k \in DOMAIN o :
                    /\ stream_out[k] = tool_call_map[o[k]]
                    /\ stream_out[k].arguments = frag_since[o[k]]

\* the first fragment of index 0 lacked the id and was discarded, so was the
\* argument text after it; then a self-sufficient fragment and one more
\* argument text arrived, and the output holds the call with the texts of
\* the last two
C39_Witness ==
    /\ drained
    /\ frag_first[0] # NoChunk
    /\ frag_first[0].id = "None"
    /\ frag_first[0].function.arguments = <<<<"a">>>>
    /\ frag_args[0] = <<"a", "b", "a">>
    /\ frag_since[0] = <<"b", "a">>
    /\ Len(stream_out) = 1
    /\ stream_out[1].arguments = <<"b", "a">>
====
